---- MODULE Spec2Model ----
(***************************************************************************)
(* A model of the spatial index of incerto (src/src/plugins/spatial_grid.rs)*)
(* and of the per-step refresh that keeps it in line with the GridPosition  *)
(* components of the bevy world; and of the sampling side of a simulation   *)
(* (src/src/simulation_builder.rs, src/src/simulation.rs,                   *)
(* src/src/plugins/time_series.rs, src/src/plugins/step_counter.rs).        *)
(*                                                                          *)
(* Option<T> is a sequence: None is <<>>, Some(v) is <<v>>.                 *)
(* IVec2 is <<x, y>>, IVec3 is <<x, y, z>>.  A HashMap is a function whose  *)
(* DOMAIN is its key set, a HashSet is a set.                               *)
(***************************************************************************)
EXTENDS Integers, Sequences, FiniteSets, TLC

\* ---------------------------------------------------------------- bounds
\* Largest coordinate an entity is inserted at (the lattice is 0..MaxCoord).
MaxCoord == 2
\* Number of entity handles.
MaxEntities == 2
\* Largest distance asked of coordinates_within_distance.
MaxDist == 2
\* Largest x coordinate a GridPosition component takes in the world model.
MaxMarker == 1
\* Most RemovedComponents events pending between two refreshes.
MaxRemoved == 2

VARIABLES
    spatial_grid,   \* the SpatialGrid<T> resource
    coord,          \* the coordinate type T of the grid: "IVec2" or "IVec3"
    lastOp,         \* the last operation called on the index, with its arguments
    ret,            \* what the last operation returned
    world,          \* entity -> state of the entity in the bevy world
    changed,        \* entities matched by Changed<GridPosition<T>> at the next run
    removed,        \* RemovedComponents<GridPosition<T>> events not yet read
    phase,          \* position within SimulationBuilder / App::update
    app             \* the bevy App of a SimulationBuilder / Simulation (sampling side)

vars == <<spatial_grid, coord, lastOp, ret, world, changed, removed, phase, app>>

\* ---------------------------------------------------------------- Option
None == <<>>

Some(v) == <<v>>

\* ---------------------------------------------------------------- HashMap
EmptyMap == <<>>

MapRemove(m, k) == [x \in DOMAIN m \ {k} |-> m[x]]

MapInsert(m, k, v) == [x \in DOMAIN m \cup {k} |-> IF x = k THEN v ELSE m[x]]

\* ---------------------------------------------------------------- IVec2 / IVec3
Abs(i) == IF i < 0 THEN -i ELSE i

Min(a, b) == IF a < b THEN a ELSE b

Max(a, b) == IF a > b THEN a ELSE b

\* The axis values are i32.
i32_MAX == 2147483647

i32_MIN == (-i32_MAX) - 1

\* a + b leaves i32 (i32::checked_add is None).
add_overflows(a, b) == (b > 0 /\ a > i32_MAX - b) \/ (b < 0 /\ a < i32_MIN - b)

\* a - b leaves i32 (i32::checked_sub is None).
sub_overflows(a, b) == (b < 0 /\ a > i32_MAX + b) \/ (b > 0 /\ a < i32_MIN + b)

\* a + b in a build without overflow checks: the sum modulo 2^32, computed
\* without leaving i32.
wrapping_add(a, b) ==
    IF b = 0 THEN a
    ELSE IF b > 0
    THEN IF a > i32_MAX - b THEN (a + i32_MIN) + (b + i32_MIN) ELSE a + b
    ELSE IF a < i32_MIN - b THEN (a - i32_MIN) + (b - i32_MIN) ELSE a + b

\* a - b in a build without overflow checks.
wrapping_sub(a, b) ==
    IF b = 0 THEN a
    ELSE IF b < 0
    THEN IF a > i32_MAX + b THEN (a + i32_MIN) + (i32_MIN - b) ELSE a - b
    ELSE IF a < i32_MIN + b THEN ((a - i32_MIN) + (i32_MAX - b)) + 1 ELSE a - b

\* self + dir of IVec2 / IVec3, axis by axis.
Add(a, b) == [i \in DOMAIN a |-> wrapping_add(a[i], b[i])]

\* Some axis of self + dir leaves i32.
Add_overflows(a, b) == \E i \in DOMAIN a : add_overflows(a[i], b[i])

\* Direction constants for 2D grid movement
NORTH == <<0, -1>>

SOUTH == <<0, 1>>

EAST == <<1, 0>>

WEST == <<-1, 0>>

NORTH_EAST == <<1, -1>>

NORTH_WEST == <<-1, -1>>

SOUTH_EAST == <<1, 1>>

SOUTH_WEST == <<-1, 1>>

\* Direction constants for 3D grid movement (orthogonal only)
UP == <<0, 0, 1>>

DOWN == <<0, 0, -1>>

NORTH_3D == <<0, -1, 0>>

SOUTH_3D == <<0, 1, 0>>

EAST_3D == <<1, 0, 0>>

WEST_3D == <<-1, 0, 0>>

\* manhattan_distance with the largest axis difference in place of the sum.
manhattan_distance_max(self, other) ==
    IF Len(self) = 2
    THEN Max(Abs(self[1] - other[1]), Abs(self[2] - other[2]))
    ELSE Max(Abs(self[1] - other[1]), Max(Abs(self[2] - other[2]), Abs(self[3] - other[3])))

\* (self - other).abs().element_sum() as u32, for coordinates whose axis
\* differences and their sum stay in i32.
manhattan_distance(self, other) ==
    IF Len(self) = 2
    THEN Abs(self[1] - other[1]) + Abs(self[2] - other[2])
    ELSE Abs(self[1] - other[1]) + Abs(self[2] - other[2]) + Abs(self[3] - other[3])

\* The sequence lo, lo+1, ..., hi of a Rust range lo..=hi.
RangeInclusive(lo, hi) == [i \in 1..(IF hi >= lo THEN hi - lo + 1 ELSE 0) |-> lo + i - 1]

RECURSIVE ConcatRange(_, _, _)
\* ss[lo] \o ... \o ss[hi], split in halves.
ConcatRange(ss, lo, hi) ==
    IF lo > hi THEN <<>>
    ELSE IF lo = hi THEN ss[lo]
    ELSE LET mid == (lo + hi) \div 2
         IN  ConcatRange(ss, lo, mid) \o ConcatRange(ss, mid + 1, hi)

\* flat_map: the concatenation of a sequence of sequences.
Concat(ss) == ConcatRange(ss, 1, Len(ss))

\* The items of a sequence, as a set.
Range(s) == {s[i] : i \in DOMAIN s}

\* IVec2::neighbors with NORTH_WEST listed twice and NORTH_EAST missing.
neighbors2_dupDirection(self) ==
    LET DIRECTIONS == <<NORTH_WEST, NORTH, NORTH_WEST, WEST, EAST, SOUTH_WEST, SOUTH, SOUTH_EAST>>
    IN  [i \in DOMAIN DIRECTIONS |-> Add(self, DIRECTIONS[i])]

\* IVec2::neighbors: DIRECTIONS.into_iter().map(|dir| self + dir)
neighbors2(self) ==
    LET DIRECTIONS == <<NORTH_WEST, NORTH, NORTH_EAST, WEST, EAST, SOUTH_WEST, SOUTH, SOUTH_EAST>>
    IN  [i \in DOMAIN DIRECTIONS |-> Add(self, DIRECTIONS[i])]

\* IVec2::neighbors_orthogonal
neighbors_orthogonal2(self) ==
    LET DIRECTIONS == <<NORTH, WEST, EAST, SOUTH>>
    IN  [i \in DOMAIN DIRECTIONS |-> Add(self, DIRECTIONS[i])]

\* IVec3::neighbors without the skip of the center.
neighbors3_withCenter(self) ==
    LET r == RangeInclusive(-1, 1)
    IN  Concat([i \in DOMAIN r |->
          Concat([j \in DOMAIN r |->
            [k \in DOMAIN r |-> Add(self, <<r[i], r[j], r[k]>>)]])])

\* IVec3::neighbors: the 3x3x3 cube in dx, dy, dz order, the center skipped.
neighbors3(self) ==
    LET r == RangeInclusive(-1, 1)
    IN  Concat([i \in DOMAIN r |->
          Concat([j \in DOMAIN r |->
            Concat([k \in DOMAIN r |->
              IF r[i] = 0 /\ r[j] = 0 /\ r[k] = 0
              THEN <<>>
              ELSE <<Add(self, <<r[i], r[j], r[k]>>)>>])])])

\* IVec3::neighbors_orthogonal
neighbors_orthogonal3(self) ==
    LET DIRECTIONS == <<WEST_3D, EAST_3D, NORTH_3D, SOUTH_3D, DOWN, UP>>
    IN  [i \in DOMAIN DIRECTIONS |-> Add(self, DIRECTIONS[i])]

\* GridPosition::neighbors, dispatched on the coordinate type.
neighbors(self) == IF Len(self) = 2 THEN neighbors2(self) ELSE neighbors3(self)

\* GridPosition::neighbors_orthogonal, dispatched on the coordinate type.
neighbors_orthogonal(self) ==
    IF Len(self) = 2 THEN neighbors_orthogonal2(self) ELSE neighbors_orthogonal3(self)

\* IVec2::coordinates_within_distance: x outer, y inner, then the distance filter.
\* distance_i32 = distance as i32 is distance for every u32 up to i32::MAX; the
\* ends of the ranges are computed in i32.
coordinates_within_distance2(self, distance) ==
    LET xs == RangeInclusive(wrapping_sub(self[1], distance), wrapping_add(self[1], distance))
        ys == RangeInclusive(wrapping_sub(self[2], distance), wrapping_add(self[2], distance))
        all == Concat([i \in DOMAIN xs |-> [j \in DOMAIN ys |-> <<xs[i], ys[j]>>]])
    IN  Concat([i \in DOMAIN all |->
          IF manhattan_distance(self, all[i]) <= distance THEN <<all[i]>> ELSE <<>>])

\* IVec3::coordinates_within_distance with a strict distance filter.
coordinates_within_distance3_strict(self, distance) ==
    LET xs == RangeInclusive(wrapping_sub(self[1], distance), wrapping_add(self[1], distance))
        ys == RangeInclusive(wrapping_sub(self[2], distance), wrapping_add(self[2], distance))
        zs == RangeInclusive(wrapping_sub(self[3], distance), wrapping_add(self[3], distance))
        all == Concat([i \in DOMAIN xs |->
                 Concat([j \in DOMAIN ys |-> [k \in DOMAIN zs |-> <<xs[i], ys[j], zs[k]>>]])])
    IN  Concat([i \in DOMAIN all |->
          IF manhattan_distance(self, all[i]) < distance THEN <<all[i]>> ELSE <<>>])

\* IVec3::coordinates_within_distance: x, y, z nested, then the distance filter.
coordinates_within_distance3(self, distance) ==
    LET xs == RangeInclusive(wrapping_sub(self[1], distance), wrapping_add(self[1], distance))
        ys == RangeInclusive(wrapping_sub(self[2], distance), wrapping_add(self[2], distance))
        zs == RangeInclusive(wrapping_sub(self[3], distance), wrapping_add(self[3], distance))
        all == Concat([i \in DOMAIN xs |->
                 Concat([j \in DOMAIN ys |-> [k \in DOMAIN zs |-> <<xs[i], ys[j], zs[k]>>]])])
    IN  Concat([i \in DOMAIN all |->
          IF manhattan_distance(self, all[i]) <= distance THEN <<all[i]>> ELSE <<>>])

coordinates_within_distance(self, distance) ==
    IF Len(self) = 2
    THEN coordinates_within_distance2(self, distance)
    ELSE coordinates_within_distance3(self, distance)

\* The point with every axis equal to v.
Diag(t, v) == IF t = "IVec2" THEN <<v, v>> ELSE <<v, v, v>>

\* ---------------------------------------------------------------- GridBounds
\* IVec2: Bounds2D(IRect::new(min.x, min.y, max.x, max.y)); IRect::new orders the
\* two corners.  IVec3: Bounds3D { min, max } as given.
create_bounds(min, max) ==
    IF Len(min) = 2
    THEN [min |-> <<Min(min[1], max[1]), Min(min[2], max[2])>>,
          max |-> <<Max(min[1], max[1]), Max(min[2], max[2])>>]
    ELSE [min |-> min, max |-> max]

\* within_bounds with the upper corner left outside.
within_bounds_halfOpen(self, b) ==
    \A i \in DOMAIN self : self[i] >= b.min[i] /\ self[i] < b.max[i]

\* IVec2: IRect::contains; IVec3: the six comparisons.
within_bounds(self, b) ==
    \A i \in DOMAIN self : self[i] >= b.min[i] /\ self[i] <= b.max[i]

\* GridBounds::new
GridBounds_new(min, max) == create_bounds(min, max)

\* GridBounds::<IVec3>::new_3d: the corners as given.
GridBounds_new_3d(min_x, max_x, min_y, max_y, min_z, max_z) ==
    [min |-> <<min_x, min_y, min_z>>, max |-> <<max_x, max_y, max_z>>]

\* GridBounds::contains
contains(b, pos) == within_bounds(pos, b)

\* ---------------------------------------------------------------- SpatialGrid
\* SpatialGrid::new
SpatialGrid_new(b) ==
    [position_to_entities |-> EmptyMap, entity_to_position |-> EmptyMap, bounds |-> b]

\* set_bounds, with the entities outside the new bounds dropped from the maps.
set_bounds_evict(self, b) ==
    LET kept == {e \in DOMAIN self.entity_to_position : contains(b, self.entity_to_position[e])}
    IN  [self EXCEPT
            !.bounds = Some(b),
            !.entity_to_position = [e \in kept |-> self.entity_to_position[e]],
            !.position_to_entities =
                [p \in {q \in DOMAIN self.position_to_entities : contains(b, q)} |->
                    self.position_to_entities[p]]]

\* SpatialGrid::set_bounds
set_bounds(self, b) == [self EXCEPT !.bounds = Some(b)]

\* remove, with the entity left in entity_to_position.
remove_keepReverse(self, entity) ==
    IF entity \in DOMAIN self.entity_to_position
    THEN LET position == self.entity_to_position[entity]
         IN  IF position \in DOMAIN self.position_to_entities
             THEN LET entities == self.position_to_entities[position] \ {entity}
                  IN  [self |-> [self EXCEPT
                                   !.position_to_entities =
                                       IF entities = {}
                                       THEN MapRemove(@, position)
                                       ELSE MapInsert(@, position, entities)],
                       ret |-> Some(position)]
             ELSE [self |-> self, ret |-> None]
    ELSE [self |-> self, ret |-> None]

\* remove, leaving the position key in place when its set becomes empty.
remove_keepEmptyKey(self, entity) ==
    IF entity \in DOMAIN self.entity_to_position
    THEN LET position == self.entity_to_position[entity]
             e2p == MapRemove(self.entity_to_position, entity)
         IN  IF position \in DOMAIN self.position_to_entities
             THEN LET entities == self.position_to_entities[position] \ {entity}
                  IN  [self |-> [self EXCEPT
                                   !.entity_to_position = e2p,
                                   !.position_to_entities = MapInsert(@, position, entities)],
                       ret |-> Some(position)]
             ELSE [self |-> [self EXCEPT !.entity_to_position = e2p], ret |-> None]
    ELSE [self |-> self, ret |-> None]

\* remove, deleting the position key without looking whether its set is empty.
remove_dropKey(self, entity) ==
    IF entity \in DOMAIN self.entity_to_position
    THEN LET position == self.entity_to_position[entity]
             e2p == MapRemove(self.entity_to_position, entity)
         IN  IF position \in DOMAIN self.position_to_entities
             THEN [self |-> [self EXCEPT
                              !.entity_to_position = e2p,
                              !.position_to_entities = MapRemove(@, position)],
                   ret |-> Some(position)]
             ELSE [self |-> [self EXCEPT !.entity_to_position = e2p], ret |-> None]
    ELSE [self |-> self, ret |-> None]

\* remove, with entity_to_position.remove(&entity).unwrap_or_default() in place
\* of the if-let: an entity that is not indexed is looked for at the origin.
remove_unwrapOrDefault(self, entity) ==
    LET position == IF entity \in DOMAIN self.entity_to_position
                    THEN self.entity_to_position[entity]
                    ELSE Diag(coord, 0)
        e2p == MapRemove(self.entity_to_position, entity)
    IN  IF position \in DOMAIN self.position_to_entities
        THEN LET entities == self.position_to_entities[position] \ {entity}
             IN  [self |-> [self EXCEPT
                              !.entity_to_position = e2p,
                              !.position_to_entities =
                                  IF entities = {}
                                  THEN MapRemove(@, position)
                                  ELSE MapInsert(@, position, entities)],
                  ret |-> Some(position)]
        ELSE [self |-> [self EXCEPT !.entity_to_position = e2p], ret |-> None]

\* SpatialGrid::remove: the new index and the returned Option<GridPosition>.
\* entity_to_position.remove(&entity) takes effect before the second condition
\* of the if-let chain is evaluated.
remove(self, entity) ==
    IF entity \in DOMAIN self.entity_to_position
    THEN LET position == self.entity_to_position[entity]
             e2p == MapRemove(self.entity_to_position, entity)
         IN  IF position \in DOMAIN self.position_to_entities
             THEN LET entities == self.position_to_entities[position] \ {entity}
                  IN  [self |-> [self EXCEPT
                                   !.entity_to_position = e2p,
                                   !.position_to_entities =
                                       IF entities = {}
                                       THEN MapRemove(@, position)
                                       ELSE MapInsert(@, position, entities)],
                       ret |-> Some(position)]
             ELSE [self |-> [self EXCEPT !.entity_to_position = e2p], ret |-> None]
    ELSE [self |-> self, ret |-> None]

\* insert, without the removal from the old position.
insert_noRemove(self, entity, position) ==
    LET p2e == self.position_to_entities
        entry == IF position \in DOMAIN p2e THEN p2e[position] ELSE {}
    IN  [self EXCEPT !.position_to_entities = MapInsert(p2e, position, entry \cup {entity}),
                     !.entity_to_position = MapInsert(@, entity, position)]

\* insert, without recording the reverse mapping.
insert_forgetReverse(self, entity, position) ==
    LET s == remove(self, entity).self
        p2e == s.position_to_entities
        entry == IF position \in DOMAIN p2e THEN p2e[position] ELSE {}
    IN  [s EXCEPT !.position_to_entities = MapInsert(p2e, position, entry \cup {entity})]

\* SpatialGrid::insert
insert(self, entity, position) ==
    LET s == remove(self, entity).self
        p2e == s.position_to_entities
        entry == IF position \in DOMAIN p2e THEN p2e[position] ELSE {}
    IN  [s EXCEPT !.position_to_entities = MapInsert(p2e, position, entry \cup {entity}),
                  !.entity_to_position = MapInsert(@, entity, position)]

\* clear, with entity_to_position left as it is.
clear_positionsOnly(self) == [self EXCEPT !.position_to_entities = EmptyMap]

\* SpatialGrid::clear
clear(self) == [self EXCEPT !.position_to_entities = EmptyMap, !.entity_to_position = EmptyMap]

\* SpatialGrid::entities_at, as the set the iterator yields.
entities_at(self, position) ==
    IF position \in DOMAIN self.position_to_entities
    THEN self.position_to_entities[position]
    ELSE {}

\* SpatialGrid::position_of
position_of(self, entity) ==
    IF entity \in DOMAIN self.entity_to_position
    THEN Some(self.entity_to_position[entity])
    ELSE None

\* SpatialGrid::is_empty
is_empty(self, position) ==
    position \notin DOMAIN self.position_to_entities \/ self.position_to_entities[position] = {}

\* SpatialGrid::num_entities
num_entities(self) == Cardinality(DOMAIN self.entity_to_position)

RECURSIVE SetToSeq(_)
\* The elements of a HashSet in the order one iteration yields them.
SetToSeq(S) == IF S = {} THEN <<>> ELSE LET x == CHOOSE y \in S : TRUE IN <<x>> \o SetToSeq(S \ {x})

\* The neighbor query without the bounds filter.
entities_of_positions_noFilter(self, positions) ==
    Concat([i \in DOMAIN positions |-> SetToSeq(entities_at(self, positions[i]))])

\* The tail shared by neighbors_of and orthogonal_neighbors_of: filter the
\* neighbor positions by the bounds, then flat_map over the sets found there.
entities_of_positions(self, positions) ==
    Concat([i \in DOMAIN positions |->
        IF self.bounds = None \/ contains(self.bounds[1], positions[i])
        THEN SetToSeq(entities_at(self, positions[i]))
        ELSE <<>>])

\* SpatialGrid::neighbors_of, as the sequence the iterator yields.
neighbors_of(self, position) == entities_of_positions(self, neighbors(position))

\* SpatialGrid::orthogonal_neighbors_of, as the sequence the iterator yields.
orthogonal_neighbors_of(self, position) ==
    entities_of_positions(self, neighbors_orthogonal(position))

\* ---------------------------------------------------------------- inputs
Entities == 1..MaxEntities

\* The positions entities are inserted at.  2D: a strip MaxCoord + 1 cells long
\* in x and two cells wide in y.  3D: the cells 0..MaxCoord of the x axis.
Lattice(t) ==
    IF t = "IVec2"
    THEN {<<x, y>> : x \in 0..MaxCoord, y \in {0, 1}}
    ELSE {<<x, y, z>> : x \in 0..MaxCoord, y \in {0}, z \in {0}}

\* The bounds a grid is given: a box around the whole lattice, and a box that
\* leaves the outermost cells of the lattice outside.
BoundsChoices(t) ==
    IF t = "IVec2"
    THEN {GridBounds_new(<<lo, lo>>, <<MaxCoord - lo, 1>>) : lo \in {0, 1}}
    ELSE {GridBounds_new(<<lo, 0, 0>>, <<MaxCoord - lo, 1, 1>>) : lo \in {0, 1}}

\* The positions queries are asked about.  2D: the strip and one point off it.
\* 3D: the cells around the start of the x axis, which see the lattice in
\* every one of the 26 directions.
QueryPositions(t) ==
    IF t = "IVec2"
    THEN Lattice(t) \cup {Diag(t, -1)}
    ELSE {<<x, y, z>> : x \in {0, 1}, y \in {-1, 0, 1}, z \in {-1, 0, 1}}

NoOp == [op |-> "none", entity |-> 0, position |-> None, was |-> "none"]

NoWorld == [e \in Entities |-> [state |-> "unspawned", marker |-> None]]

\* No App: the index is exercised on its own.
NoApp == [state |-> "none"]

\* ---------------------------------------------------------------- calls on the index
\* insert(entity, position); lastOp.was records where the entity was before.
Insert(entity, position) ==
    /\ phase \in {"api", "scenario"}
    /\ spatial_grid' = insert(spatial_grid, entity, position)
    /\ lastOp' = [op |-> "insert", entity |-> entity, position |-> Some(position),
                  was |-> IF position_of(spatial_grid, entity) = None THEN "absent"
                          ELSE IF position_of(spatial_grid, entity) = Some(position)
                               THEN "same" ELSE "other"]
    /\ ret' = None
    /\ UNCHANGED <<coord, world, changed, removed, phase, app>>

\* remove(entity)
Remove(entity) ==
    /\ phase \in {"api", "scenario"}
    /\ spatial_grid' = remove(spatial_grid, entity).self
    /\ ret' = remove(spatial_grid, entity).ret
    /\ lastOp' = [op |-> "remove", entity |-> entity, position |-> None,
                  was |-> IF position_of(spatial_grid, entity) = None
                          THEN "absent" ELSE "indexed"]
    /\ UNCHANGED <<coord, world, changed, removed, phase, app>>

\* clear(); lastOp.was records whether the index held an entity before.
Clear ==
    /\ phase \in {"api", "scenario"}
    /\ spatial_grid' = clear(spatial_grid)
    /\ ret' = None
    /\ lastOp' = [NoOp EXCEPT !.op = "clear",
                              !.was = IF num_entities(spatial_grid) = 0 THEN "empty" ELSE "indexed"]
    /\ UNCHANGED <<coord, world, changed, removed, phase, app>>

\* set_bounds(bounds)
SetBounds(b) ==
    /\ phase \in {"api", "scenario"}
    /\ spatial_grid' = set_bounds(spatial_grid, b)
    /\ ret' = None
    /\ lastOp' = [NoOp EXCEPT !.op = "set_bounds"]
    /\ UNCHANGED <<coord, world, changed, removed, phase, app>>

\* A grid of either coordinate type, built with or without bounds.
Init ==
    /\ coord \in {"IVec2", "IVec3"}
    /\ \E b \in {None} \cup {Some(c) : c \in BoundsChoices(coord)} :
           spatial_grid = SpatialGrid_new(b)
    /\ lastOp = NoOp
    /\ ret = None
    /\ world = NoWorld
    /\ changed = {}
    /\ removed = <<>>
    /\ phase \in {"api", "scenario"}
    /\ app = NoApp

Next ==
    \/ \E e \in Entities, p \in Lattice(coord) : Insert(e, p)
    \/ \E e \in Entities : Remove(e)
    \/ Clear
    \/ \E b \in BoundsChoices(coord) : SetBounds(b)

Spec == Init /\ [][Next]_vars

\* ---------------------------------------------------------------- the bevy world
\* The values a GridPosition component takes in the world.
MarkerPositions == {<<x, 0>> : x \in 0..MaxMarker}

\* The phases in which the world is mutated: by the spawners of
\* SimulationBuilder::build, and by the user systems of the Update schedule.
UserPhase == phase \in {"build", "refreshed", "Update"}

AfterUserAction == IF phase = "build" THEN "build" ELSE "Update"

HasMarker(e) == world[e].state = "alive" /\ world[e].marker # None

\* Spawner::spawn / Commands::spawn: a new entity, with or without a
\* GridPosition.  An added component counts as changed.
Spawn(m) ==
    /\ UserPhase
    /\ \E e \in Entities :
          /\ world[e].state = "unspawned"
          /\ \A f \in Entities : f < e => world[f].state # "unspawned"
          /\ world' = [world EXCEPT ![e] = [state |-> "alive", marker |-> m]]
          /\ changed' = IF m = None THEN changed ELSE changed \cup {e}
    /\ phase' = AfterUserAction
    /\ UNCHANGED <<spatial_grid, coord, lastOp, ret, removed, app>>

\* A user system adds a GridPosition to an entity or writes the one it has.
InsertMarker(e, p) ==
    /\ phase \in {"refreshed", "Update"}
    /\ world[e].state = "alive"
    /\ world' = [world EXCEPT ![e].marker = Some(p)]
    /\ changed' = changed \cup {e}
    /\ phase' = "Update"
    /\ UNCHANGED <<spatial_grid, coord, lastOp, ret, removed, app>>

\* A user system removes the GridPosition of an entity: the world records a
\* RemovedComponents event.
RemoveMarker(e) ==
    /\ phase \in {"refreshed", "Update"}
    /\ HasMarker(e)
    /\ Len(removed) < MaxRemoved
    /\ world' = [world EXCEPT ![e].marker = None]
    /\ changed' = changed \ {e}
    /\ removed' = Append(removed, e)
    /\ phase' = "Update"
    /\ UNCHANGED <<spatial_grid, coord, lastOp, ret, app>>

\* A user system despawns an entity: its components are removed with it.
Despawn(e) ==
    /\ phase \in {"refreshed", "Update"}
    /\ world[e].state = "alive"
    /\ HasMarker(e) => Len(removed) < MaxRemoved
    /\ world' = [world EXCEPT ![e] = [state |-> "despawned", marker |-> None]]
    /\ changed' = changed \ {e}
    /\ removed' = IF HasMarker(e) THEN Append(removed, e) ELSE removed
    /\ phase' = "Update"
    /\ UNCHANGED <<spatial_grid, coord, lastOp, ret, app>>

\* The orders in which a query may yield the entities of S.
Orders(S) == {o \in [1..Cardinality(S) -> S] : \A i, j \in DOMAIN o : i # j => o[i] # o[j]}

RECURSIVE InsertEach(_, _, _)
\* for (entity, position) in &query { spatial_grid.insert(entity, *position); }
InsertEach(self, order, i) ==
    IF i > Len(order)
    THEN self
    ELSE InsertEach(insert(self, order[i], world[order[i]].marker[1]), order, i + 1)

RECURSIVE RemoveEach(_, _, _)
\* for entity in removed.read() { spatial_grid.remove(entity); }
RemoveEach(self, events, i) ==
    IF i > Len(events)
    THEN self
    ELSE RemoveEach(remove(self, events[i]).self, events, i + 1)

\* spatial_grid_update_system, the first system of PreUpdate: the query yields
\* the entities that carry a GridPosition added or changed since its last run.
spatial_grid_update_system ==
    /\ UserPhase
    /\ \E order \in Orders({e \in changed : HasMarker(e)}) :
          spatial_grid' = InsertEach(spatial_grid, order, 1)
    /\ changed' = {}
    /\ phase' = "cleanup_system"
    /\ UNCHANGED <<coord, lastOp, ret, world, removed, app>>

\* spatial_grid_cleanup_system, chained after the update system: reads every
\* RemovedComponents event recorded since its last run.
spatial_grid_cleanup_system ==
    /\ phase = "cleanup_system"
    /\ spatial_grid' = RemoveEach(spatial_grid, removed, 1)
    /\ removed' = <<>>
    /\ phase' = "refreshed"
    /\ UNCHANGED <<coord, lastOp, ret, world, changed, app>>

\* SimulationBuilder::new().add_spatial_grid(bounds), before the spawners run.
InitEcs ==
    /\ coord = "IVec2"
    /\ \E b \in {None} \cup {Some(c) : c \in BoundsChoices(coord)} :
           spatial_grid = SpatialGrid_new(b)
    /\ lastOp = NoOp
    /\ ret = None
    /\ world = NoWorld
    /\ changed = {}
    /\ removed = <<>>
    /\ phase = "build"
    /\ app = NoApp

NextEcs ==
    \/ \E m \in {None} \cup {Some(p) : p \in MarkerPositions} : Spawn(m)
    \/ \E e \in Entities, p \in MarkerPositions : InsertMarker(e, p)
    \/ \E e \in Entities : RemoveMarker(e)
    \/ \E e \in Entities : Despawn(e)
    \/ spatial_grid_update_system
    \/ spatial_grid_cleanup_system

SpecEcs == InitEcs /\ [][NextEcs]_vars

\* ---------------------------------------------------------------- the 3D integration test
\* The positions test_3d_spatial_grid_integration spawns its four entities at.
ScenarioSpawns == << <<0, 0, 0>>, <<2, 2, 2>>, <<4, 4, 4>>, <<1, 2, 3>> >>

ScenarioEntities == DOMAIN ScenarioSpawns

ScenarioBounds == GridBounds_new(<<0, 0, 0>>, <<4, 4, 4>>)

ScenarioCenter == <<2, 2, 2>>

ScenarioDistance == 2

\* A position outside the bounds, next to their far corner.
ScenarioOutside == <<5, 4, 4>>

\* The methods of impl SpatialGrid.
SpatialGrid_methods ==
    {"new", "set_bounds", "bounds", "insert", "remove", "entities_at", "position_of",
     "neighbors_of", "orthogonal_neighbors_of", "clear", "is_empty", "num_entities"}

InitScenario ==
    /\ coord = "IVec3"
    /\ spatial_grid = SpatialGrid_new(Some(ScenarioBounds))
    /\ lastOp = NoOp
    /\ ret = None
    /\ world = NoWorld
    /\ changed = {}
    /\ removed = <<>>
    /\ phase = "scenario"
    /\ app = NoApp

\* Each entity of the test is inserted at its position of the test or outside
\* the bounds, and removed, in any order.
NextScenario ==
    \/ \E e \in ScenarioEntities : \E p \in {ScenarioSpawns[e], ScenarioOutside} : Insert(e, p)
    \/ \E e \in ScenarioEntities : Remove(e)

SpecScenario == InitScenario /\ [][NextScenario]_vars

\* ---------------------------------------------------------------- the sampling side
\* Largest sample_interval given to the builder.
MaxInterval == 2
\* Most simulation steps run after build or after a reset.
MaxSteps == 4
\* Most entities the spawners of one builder spawn.
MaxSpawned == 2
\* Most resets of one simulation.
MaxResets == 1

Ok(v) == <<"Ok", v>>

Err(e) == <<"Err", e>>

is_ok(r) == r[1] = "Ok"

is_err(r) == r[1] = "Err"

\* The last call made on the builder or the simulation: its name, arguments, result.
Call(op, args, r) == [op |-> op, args |-> args, ret |-> r]

\* The query filters F and the output types O a series of MyCounter is recorded with.
Filters == {"()", "With<CounterId>"}

Outputs == {"usize", "bool"}

\* The identifier type I of the per-entity series.
IdentifierType == "CounterId"

\* The values of CounterId the spawners give.
CounterIds == {1, 5}

\* What a spawner spawns: MyCounter(0), alone or with a CounterId, or a bare CounterId.
Bundles ==
    {[counter |-> Some(0), id |-> None]}
        \cup {[counter |-> Some(0), id |-> Some(i)] : i \in CounterIds}
        \cup {[counter |-> None, id |-> Some(1)]}

\* The component types of a bundle.
ComponentsOf(b) ==
    (IF b.counter # None THEN {"MyCounter"} ELSE {}) \cup (IF b.id # None THEN {"CounterId"} ELSE {})

\* is_multiple_of, with the sample interval not looked at.
is_multiple_of_unchecked(self, rhs) == TRUE

\* usize::is_multiple_of
is_multiple_of(self, rhs) == IF rhs = 0 THEN self = 0 ELSE self % rhs = 0

RECURSIVE SumSeq(_)
SumSeq(s) == IF s = <<>> THEN 0 ELSE Head(s) + SumSeq(Tail(s))

\* impl SampleAggregate<usize> for MyCounter (the sum) and <bool> (no component).
sample_aggregate_of(O, components) ==
    IF O = "usize" THEN SumSeq(components) ELSE components = <<>>

\* impl Sample<usize> for MyCounter
sample_of(component) == component

\* TimeSeries::new
TimeSeries_new(sample_interval) == [values |-> <<>>, sample_interval |-> sample_interval]

\* An entity that does not exist (any more).
NoEntity == [alive |-> FALSE, counter |-> None, id |-> None, time_series |-> None, added |-> FALSE]

\* StepCounterPlugin::init, with the counter left as it is.
StepCounterPlugin_init_keep(a) == a

\* StepCounterPlugin::init
StepCounterPlugin_init(a) == [a EXCEPT !.step_counter = 0]

\* App::new with the plugins of SimulationBuilder::new.  n counts the calls of
\* Simulation::run's loop body since build (or reset); sampled_at keeps, for
\* each aggregate series, the step counter read at each push; resets counts the
\* resets and dropped the values the last reset found in the aggregate series.
App_new ==
    StepCounterPlugin_init(
        [state |-> "builder", step_counter |-> 0, systems |-> FALSE,
         time_series |-> EmptyMap, sample_interval |-> None,
         spawners |-> <<>>, entities |-> <<>>, registered |-> {},
         last |-> Call("new", <<>>, None),
         n |-> 0, sampled_at |-> EmptyMap, resets |-> 0, dropped |-> 0])

\* step_counter_increment (schedule First)
step_counter_increment(a) == [a EXCEPT !.step_counter = @ + 1]

\* The user's systems (schedule Update): each MyCounter is incremented by one;
\* the entity despawn names, if any, is despawned by a command.
user_systems(a, despawn) ==
    IF ~a.systems THEN a
    ELSE [a EXCEPT
            !.registered = @ \cup {"MyCounter"},
            !.entities = [i \in DOMAIN a.entities |->
                IF i = despawn THEN NoEntity
                ELSE IF a.entities[i].alive /\ a.entities[i].counter # None
                     THEN [a.entities[i] EXCEPT !.counter = Some(@[1] + 1)]
                     ELSE a.entities[i]]]

\* Query<&C, F>::iter: the MyCounter values of the entities the filter selects.
query_iter(a, F) ==
    LET sel(e) == e.alive /\ e.counter # None /\ (F = "()" \/ e.id # None)
        es == SelectSeq(a.entities, sel)
    IN [i \in DOMAIN es |-> es[i].counter[1]]

\* The push, with the recorded values replaced by the sample.
aggregate_time_series_push_overwrite(ts, sample) == [ts EXCEPT !.values = <<sample>>]

\* AggregateTimeSeriesPlugin::time_series_sample: time_series.values.push(sample)
aggregate_time_series_push(ts, sample) == [ts EXCEPT !.values = Append(@, sample)]

\* AggregateTimeSeriesPlugin::time_series_sample for the series of key <<F, O>>
aggregate_time_series_sample(a, key) ==
    IF is_multiple_of(a.step_counter, a.time_series[key].sample_interval)
    THEN [a EXCEPT
            !.time_series[key] =
                aggregate_time_series_push(@, sample_aggregate_of(key[2], query_iter(a, key[1]))),
            !.sampled_at[key] = Append(@, a.step_counter)]
    ELSE a

RECURSIVE AggregateSampleEach(_, _)
AggregateSampleEach(a, keys) ==
    IF keys = {} THEN a
    ELSE LET k == CHOOSE x \in keys : TRUE
         IN AggregateSampleEach(aggregate_time_series_sample(a, k), keys \ {k})

\* TimeSeriesPlugin::time_series_init: entities with Added<C> get an empty series.
time_series_init(a) ==
    [a EXCEPT !.entities = [i \in DOMAIN a.entities |->
        IF a.entities[i].alive /\ a.entities[i].counter # None /\ a.entities[i].added
        THEN [a.entities[i] EXCEPT !.time_series = Some(TimeSeries_new(a.sample_interval[1])),
                                   !.added = FALSE]
        ELSE a.entities[i]]]

\* TimeSeriesPlugin::time_series_sample: every entity with C and a series gets a value.
time_series_sample(a) ==
    [a EXCEPT !.entities = [i \in DOMAIN a.entities |->
        IF a.entities[i].alive /\ a.entities[i].counter # None /\ a.entities[i].time_series # None
        THEN [a.entities[i] EXCEPT
                !.time_series = Some([@[1] EXCEPT
                    !.values = Append(@, sample_of(a.entities[i].counter[1]))])]
        ELSE a.entities[i]]]

\* The systems the two plugins add to PostUpdate; the first run of the
\* per-entity systems registers the component type of the series.
time_series_systems(a) ==
    LET b == AggregateSampleEach(a, DOMAIN a.time_series)
    IN IF b.sample_interval = None THEN b
       ELSE time_series_sample(time_series_init([b EXCEPT !.registered = @ \cup {"TimeSeries"}]))

\* App::update: First, Update, PostUpdate.
App_update(a, despawn) ==
    time_series_systems(user_systems(step_counter_increment(a), despawn))

\* SimulationBuilder::new
SimulationBuilder_new == App_update(App_new, 0)

\* SimulationBuilder::add_systems
add_systems(a) == [a EXCEPT !.systems = TRUE]

\* SimulationBuilder::add_entity_spawner
add_entity_spawner(a, bundle) ==
    [a EXCEPT !.spawners = Append(@, bundle), !.last = Call("add_entity_spawner", <<bundle>>, None)]

\* record_aggregate_time_series_filtered, with the conflict decided on the
\* component and the filter alone.
record_aggregate_time_series_filtered_anyOutput(a, F, O, sample_interval) ==
    IF ~(sample_interval > 0)
    THEN [a EXCEPT !.state = "panicked",
                   !.last = Call("record_aggregate_time_series_filtered",
                                 <<F, O, sample_interval>>, None)]
    ELSE IF \E k \in DOMAIN a.time_series : k[1] = F
    THEN [a EXCEPT !.last = Call("record_aggregate_time_series_filtered",
                                 <<F, O, sample_interval>>, Err("TimeSeriesRecordingConflict"))]
    ELSE [a EXCEPT !.time_series = MapInsert(@, <<F, O>>, TimeSeries_new(sample_interval)),
                   !.sampled_at = MapInsert(@, <<F, O>>, <<>>),
                   !.last = Call("record_aggregate_time_series_filtered",
                                 <<F, O, sample_interval>>, Ok("Self"))]

\* SimulationBuilder::record_aggregate_time_series_filtered::<MyCounter, F, O>
record_aggregate_time_series_filtered(a, F, O, sample_interval) ==
    IF ~(sample_interval > 0)
    THEN [a EXCEPT !.state = "panicked",
                   !.last = Call("record_aggregate_time_series_filtered",
                                 <<F, O, sample_interval>>, None)]
    ELSE IF <<F, O>> \in DOMAIN a.time_series
    THEN [a EXCEPT !.last = Call("record_aggregate_time_series_filtered",
                                 <<F, O, sample_interval>>, Err("TimeSeriesRecordingConflict"))]
    ELSE [a EXCEPT !.time_series = MapInsert(@, <<F, O>>, TimeSeries_new(sample_interval)),
                   !.sampled_at = MapInsert(@, <<F, O>>, <<>>),
                   !.last = Call("record_aggregate_time_series_filtered",
                                 <<F, O, sample_interval>>, Ok("Self"))]

\* SimulationBuilder::record_aggregate_time_series::<MyCounter, O>
record_aggregate_time_series(a, O, sample_interval) ==
    record_aggregate_time_series_filtered(a, "()", O, sample_interval)

\* record_time_series, with any interval accepted.
record_time_series_anyInterval(a, sample_interval) ==
    IF a.sample_interval # None
    THEN [a EXCEPT !.last = Call("record_time_series", <<sample_interval>>,
                                 Err("TimeSeriesRecordingConflict"))]
    ELSE [a EXCEPT !.sample_interval = Some(sample_interval),
                   !.last = Call("record_time_series", <<sample_interval>>, Ok("Self"))]

\* SimulationBuilder::record_time_series::<MyCounter, CounterId, usize>
record_time_series(a, sample_interval) ==
    IF ~(sample_interval > 0)
    THEN [a EXCEPT !.state = "panicked",
                   !.last = Call("record_time_series", <<sample_interval>>, None)]
    ELSE IF a.sample_interval # None
    THEN [a EXCEPT !.last = Call("record_time_series", <<sample_interval>>,
                                 Err("TimeSeriesRecordingConflict"))]
    ELSE [a EXCEPT !.sample_interval = Some(sample_interval),
                   !.last = Call("record_time_series", <<sample_interval>>, Ok("Self"))]

\* Spawner::spawn for each bundle of the spawners.
spawn_all(a) ==
    [a EXCEPT
        !.entities = [i \in DOMAIN a.spawners |->
            [alive |-> TRUE, counter |-> a.spawners[i].counter, id |-> a.spawners[i].id,
             time_series |-> None, added |-> a.spawners[i].counter # None]],
        !.registered = @ \cup UNION {ComponentsOf(a.spawners[i]) : i \in DOMAIN a.spawners}]

\* SimulationBuilder::build
build(a) == [spawn_all(a) EXCEPT !.state = "simulation", !.last = Call("build", <<>>, None)]

\* Simulation::reset, which MonteCarlo::reset and run_new call: the entities are
\* cleared, the resources are set up again and the spawners run.
reset(a) ==
    [spawn_all(StepCounterPlugin_init(a)) EXCEPT
        !.time_series = [k \in DOMAIN a.time_series |-> TimeSeries_new(a.time_series[k].sample_interval)],
        !.sampled_at = [k \in DOMAIN a.time_series |-> <<>>],
        !.last = Call("reset", <<>>, None),
        !.n = 0,
        !.resets = @ + 1,
        !.dropped = SumSeq([i \in 1..Cardinality(DOMAIN a.time_series) |->
                        Len(a.time_series[SetToSeq(DOMAIN a.time_series)[i]].values)])]

\* Simulation::sample_aggregate::<MyCounter, O>
sample_aggregate(a, O) ==
    IF "MyCounter" \notin a.registered THEN Err("ComponentMissing")
    ELSE Ok(sample_aggregate_of(O, query_iter(a, "()")))

\* sample, without the look for a second entity of the same identifier.
sample_firstOfMany(a, id) ==
    IF ~({"MyCounter", "CounterId"} \subseteq a.registered) THEN Err("ComponentMissing")
    ELSE LET sel(e) == e.alive /\ e.counter # None /\ e.id = Some(id)
             result_iter == SelectSeq(a.entities, sel)
         IN IF result_iter = <<>> THEN Err("EntityIdentifierNotFound")
            ELSE Ok(sample_of(Head(result_iter).counter[1]))

\* Simulation::sample::<MyCounter, CounterId, usize>(id)
sample(a, id) ==
    IF ~({"MyCounter", "CounterId"} \subseteq a.registered) THEN Err("ComponentMissing")
    ELSE LET sel(e) == e.alive /\ e.counter # None /\ e.id = Some(id)
             result_iter == SelectSeq(a.entities, sel)
         IN IF result_iter = <<>> THEN Err("EntityIdentifierNotFound")
            ELSE IF Tail(result_iter) # <<>> THEN Err("EntityIdentifierNotUnique")
            ELSE Ok(sample_of(Head(result_iter).counter[1]))

\* get_aggregate_time_series_filtered, with a missing resource read as the
\* default (empty) series.
get_aggregate_time_series_filtered_orDefault(a, F, O) ==
    IF <<F, O>> \notin DOMAIN a.time_series THEN Ok(<<>>)
    ELSE Ok(a.time_series[<<F, O>>].values)

\* Simulation::get_aggregate_time_series_filtered::<MyCounter, F, O>
get_aggregate_time_series_filtered(a, F, O) ==
    IF <<F, O>> \notin DOMAIN a.time_series THEN Err("TimeSeriesNotRecorded")
    ELSE Ok(a.time_series[<<F, O>>].values)

\* Simulation::get_time_series::<MyCounter, CounterId, usize>(id)
get_time_series(a, id) ==
    IF ~({"TimeSeries", "CounterId"} \subseteq a.registered) THEN Err("ComponentMissing")
    ELSE LET sel(e) == e.alive /\ e.time_series # None /\ e.id = Some(id)
             result_iter == SelectSeq(a.entities, sel)
         IN IF result_iter = <<>> THEN Err("EntityIdentifierNotFound")
            ELSE IF Tail(result_iter) # <<>> THEN Err("EntityIdentifierNotUnique")
            ELSE Ok(Head(result_iter).time_series[1].values)

\* ---------------------------------------------------------------- calls on the builder and the simulation
gridVars == <<spatial_grid, coord, lastOp, ret, world, changed, removed, phase>>

RecordAggregateTimeSeriesFiltered(F, O, sample_interval) ==
    /\ app.state = "builder"
    /\ app' = record_aggregate_time_series_filtered(app, F, O, sample_interval)
    /\ UNCHANGED gridVars

RecordTimeSeries(sample_interval) ==
    /\ app.state = "builder"
    /\ app' = record_time_series(app, sample_interval)
    /\ UNCHANGED gridVars

AddEntitySpawner(bundle) ==
    /\ app.state = "builder"
    /\ Len(app.spawners) < MaxSpawned
    /\ app' = add_entity_spawner(app, bundle)
    /\ UNCHANGED gridVars

Build ==
    /\ app.state = "builder"
    /\ app' = build(app)
    /\ UNCHANGED gridVars

\* One turn of the loop of Simulation::run; the user's systems despawn one entity or none.
Run(despawn) ==
    /\ app.state = "simulation"
    /\ app.n < MaxSteps
    /\ despawn = 0 \/ (despawn \in DOMAIN app.entities /\ app.entities[despawn].alive)
    /\ app' = [App_update(app, despawn) EXCEPT !.n = @ + 1, !.last = Call("run", <<1>>, None)]
    /\ UNCHANGED gridVars

Reset ==
    /\ app.state = "simulation"
    /\ app.resets < MaxResets
    /\ app' = reset(app)
    /\ UNCHANGED gridVars

\* SimulationBuilder::new().add_systems(..), no index in use.
InitSim ==
    /\ app = add_systems(SimulationBuilder_new)
    /\ coord = "IVec2"
    /\ spatial_grid = SpatialGrid_new(None)
    /\ lastOp = NoOp
    /\ ret = None
    /\ world = NoWorld
    /\ changed = {}
    /\ removed = <<>>
    /\ phase = "sampling"

\* A simulation with the series of the sum of all MyCounter and the per-entity
\* series: built, run step by step, reset.
NextSim ==
    \/ \E s \in 0..MaxInterval : RecordAggregateTimeSeriesFiltered("()", "usize", s)
    \/ \E s \in 0..MaxInterval : RecordTimeSeries(s)
    \/ \E b \in Bundles : AddEntitySpawner(b)
    \/ Build
    \/ \E d \in 0..MaxSpawned : Run(d)
    \/ Reset

SpecSim == InitSim /\ [][NextSim]_vars

\* ---------------------------------------------------------------- test_counter_time_series
\* The sample interval of the test.
TestInterval == 10

NUM_STEPS == 100

\* The steps of the second call of run.
TestMoreSteps == 10

\* The builder of the test, built: one MyCounter(0), its sum sampled every 10 steps.
TestSimulation ==
    build(record_aggregate_time_series(
              add_entity_spawner(add_systems(SimulationBuilder_new), [counter |-> Some(0), id |-> None]),
              "usize", TestInterval))

\* One turn of the loops of simulation.run(NUM_STEPS) and simulation.run(10).
RunTest ==
    /\ app.state = "simulation"
    /\ app.n < NUM_STEPS + TestMoreSteps
    /\ app' = [App_update(app, 0) EXCEPT !.n = @ + 1, !.last = Call("run", <<1>>, None)]
    /\ UNCHANGED gridVars

InitCounter ==
    /\ app = TestSimulation
    /\ coord = "IVec2"
    /\ spatial_grid = SpatialGrid_new(None)
    /\ lastOp = NoOp
    /\ ret = None
    /\ world = NoWorld
    /\ changed = {}
    /\ removed = <<>>
    /\ phase = "sampling"

NextCounter == RunTest

SpecCounter == InitCounter /\ [][NextCounter]_vars

\* The builder alone: every series of MyCounter, per-entity or aggregate.
NextBuilder ==
    \/ \E F \in Filters, O \in Outputs, s \in 0..MaxInterval :
           RecordAggregateTimeSeriesFiltered(F, O, s)
    \/ \E s \in 0..MaxInterval : RecordTimeSeries(s)
    \/ Build

SpecBuilder == InitSim /\ [][NextBuilder]_vars

\* ---------------------------------------------------------------- the aggregators (util/aggregate.rs)
\* Longest slice of components every value of which is drawn freely.
MaxLen == 3
\* The projected values drawn: 0..MaxValue, for u8 also u8::MAX - (0..MaxValue).
MaxValue == 1
\* Longest slice of components: the slices longer than MaxLen are 1, 2, .., n.
MaxPopulation == 50

u8_MAX == 255

\* f64::MANTISSA_DIGITS
f64_MANTISSA_DIGITS == 53

\* The f32 that compares with no value, itself included; the other f32 of the
\* model are non-negative integers.
NaN == 0 - 1

\* A panic of the call; a result is None, Some(v) or a panic.
Panic(msg) == <<"panic", msg>>

is_panic(r) == Len(r) = 2 /\ r[1] = "panic"

is_some(r) == Len(r) = 1

\* PartialOrd::partial_cmp of two projected values
partial_cmp(a, b) ==
    IF a = NaN \/ b = NaN THEN None
    ELSE Some(IF a < b THEN "Less" ELSE IF a = b THEN "Equal" ELSE "Greater")

\* Minimum, with the first value kept.
Minimum_sample_aggregate_first(components) ==
    IF components = <<>> THEN None ELSE Some(Head(components))

RECURSIVE fold_ordering(_, _, _)
\* .fold(None, |acc, v| acc.map_or(Some(v), |cur| match v.partial_cmp(&cur)
\*     { Some(ordering) => Some(v), _ => Some(cur) }))
fold_ordering(ordering, acc, vs) ==
    IF vs = <<>> THEN acc
    ELSE LET v == Head(vs)
             next == IF acc = None THEN Some(v)
                     ELSE IF partial_cmp(v, acc[1]) = Some(ordering) THEN Some(v) ELSE acc
         IN fold_ordering(ordering, next, Tail(vs))

\* impl SampleAggregate<Option<Minimum<O>>>: the values are the projections
\* Sample::sample of the components.
Minimum_sample_aggregate(components) == fold_ordering("Less", None, components)

\* impl SampleAggregate<Option<Maximum<O>>>
Maximum_sample_aggregate(components) == fold_ordering("Greater", None, components)

\* Every two values of the slice compare.
Comparable(values) ==
    \A i, j \in DOMAIN values : i < j => partial_cmp(values[i], values[j]) # None

RECURSIVE SortedInsert(_, _)
SortedInsert(s, v) ==
    IF s = <<>> THEN <<v>>
    ELSE IF partial_cmp(v, Head(s)) = Some("Less") THEN <<v>> \o s
    ELSE <<Head(s)>> \o SortedInsert(Tail(s), v)

RECURSIVE SortAscending(_)
\* The values of a slice whose values all compare, in ascending order.
SortAscending(values) ==
    IF values = <<>> THEN <<>> ELSE SortedInsert(SortAscending(Tail(values)), Head(values))

\* The indices of a slice, rotated by k.
Rotation(values, k) == [i \in DOMAIN values |-> ((i - 1 + k) % Len(values)) + 1]

\* What the standard library does with an Ord that disagrees with its
\* PartialOrd: sealed::Ordered panics in Ord::cmp and answers None in
\* partial_cmp, so a heap that orders through cmp panics and one that orders
\* through the operators <= and >= (false for NaN) leaves the values in an
\* order that is not specified; the rotations of the slice put every value at
\* every index.  Slices whose values all compare are sorted either way.
StdChoices(values) ==
    IF Comparable(values) THEN {[cmp |-> TRUE, perm |-> Rotation(values, 0)]}
    ELSE {[cmp |-> c, perm |-> Rotation(values, k)] : c \in BOOLEAN, k \in 0..(Len(values) - 1)}

\* BinaryHeap<sealed::Ordered<O>>: collect() and into_sorted_vec(); the
\* result is <<"sorted", the vector>> or a panic.
into_sorted_vec(values, std) ==
    IF Comparable(values) THEN <<"sorted", SortAscending(values)>>
    ELSE IF std.cmp THEN Panic("error during aggregate sampling, cannot compare values")
    ELSE <<"sorted", [i \in DOMAIN values |-> values[std.perm[i]]]>>

RECURSIVE Pow2(_)
Pow2(k) == IF k = 0 THEN 1 ELSE 2 * Pow2(k - 1)

RECURSIVE Pow2Mod(_, _)
\* 2^k modulo m
Pow2Mod(k, m) == IF k = 0 THEN 1 % m ELSE (2 * Pow2Mod(k - 1, m)) % m

\* Percentile::PERCENTAGE = (P as f64) / 100.0 for 0 < P <= 100, rounded to the
\* nearest f64: with 2^-j <= P/100 < 2^(1-j) the quotient has the mantissa
\* m = round(P * 2^K / 100), K = 52 + j, and its value m / 2^K is
\* P/100 + r / (100 * 2^K), where r = 100 * m - P * 2^K lies in -50..50 and is
\* found from P * 2^K modulo 100.  (No tie occurs: P * 2^K is a multiple of 4.)
PERCENTAGE(P) ==
    IF P = 0 THEN [P |-> 0, j |-> 0, r |-> 0]
    ELSE LET j == CHOOSE x \in 0..7 :
                      P * Pow2(x) >= 100 /\ (x = 0 \/ P * Pow2(x - 1) < 100)
             K == f64_MANTISSA_DIGITS - 1 + j
             t == (P * Pow2Mod(K, 100)) % 100
         IN [P |-> P, j |-> j, r |-> IF t < 50 THEN 0 - t ELSE 100 - t]

\* (PERCENTAGE * len as f64).floor(): the product is P*len/100 + r*len/(100*2^K),
\* rounded to the nearest f64.  With k = floor(P*len/100), the rounded product
\* lies below k only when P*len/100 = k exactly, r < 0 and the shortfall
\* |r|*len/(100*2^K) exceeds half the spacing 2^(E-52) of the f64 just below k
\* (2^E < k <= 2^(E+1)), that is when |r|*len > 50 * 2^(j+E); then the floor
\* is k - 1.
f64_mul_floor(pct, len) ==
    LET k == (pct.P * len) \div 100
        exact == (pct.P * len) % 100 = 0
        E == (CHOOSE x \in 0..32 : Pow2(x) >= k) - 1
    IN IF exact /\ pct.r < 0 /\ (0 - pct.r) * len > 50 * Pow2(pct.j + E)
       THEN k - 1 ELSE k

\* impl SampleAggregate<Option<Percentile<O, P>>>
Percentile_sample_aggregate(components, P, std) ==
    IF components = <<>> THEN None
    ELSE LET heap == into_sorted_vec(components, std)
             sorted == heap[2]
             idx == f64_mul_floor(PERCENTAGE(P), Len(components))
         IN IF is_panic(heap) THEN heap
            ELSE IF idx >= Len(sorted) THEN Panic("index out of bounds")
            ELSE Some(sorted[idx + 1])

\* Median, with the lower of the two middle values.
Median_sample_aggregate_lower(components, std) ==
    IF components = <<>> THEN None
    ELSE LET heap == into_sorted_vec(components, std)
             sorted == heap[2]
         IN IF is_panic(heap) THEN heap ELSE Some(sorted[(Len(sorted) - 1) \div 2 + 1])

\* impl SampleAggregate<Option<Median<O>>>
Median_sample_aggregate(components, std) ==
    IF components = <<>> THEN None
    ELSE LET heap == into_sorted_vec(components, std)
             sorted == heap[2]
         IN IF is_panic(heap) THEN heap ELSE Some(sorted[Len(sorted) \div 2 + 1])

\* The largest value of the integer type T; the sums of the usize slices of
\* the model stay below usize::MAX.
MAX(T) == IF T = "u8" THEN u8_MAX ELSE SumSeq([i \in 1..MaxPopulation |-> MaxPopulation])

\* blanket_impl_sample_aggr_mean!(T) for an integer type T: the sum is of
\* type T (it panics on overflow in the debug profile, which has overflow
\* checks, and wraps in the release profile), the count is components.len() as T.
Mean_sample_aggregate(components, T, profile) ==
    IF components = <<>> THEN None
    ELSE LET total == SumSeq(components)
             sum == total % (MAX(T) + 1)
             cnt == Len(components) % (MAX(T) + 1)
         IN IF total > MAX(T) /\ profile = "debug" THEN Panic("attempt to add with overflow")
            ELSE IF cnt = 0 THEN Panic("attempt to divide by zero")
            ELSE Some(sum \div cnt)

\* The percentiles sampled: the ones of the tests (10, 70, 30) and others.
Percentiles == {0, 10, 30, 58, 70, 100}

\* test_aggregates.rs spawns Item(2 * i + 1) for i in 0..10.
TestItemCount == 10

TestItems == [i \in 1..TestItemCount |-> 2 * (i - 1) + 1]

U8Values == (0..MaxValue) \cup {u8_MAX - v : v \in 0..MaxValue}

F32Values == (0..MaxValue) \cup {NaN}

\* Every slice of at most MaxLen values of V.
Slices(V) == UNION {[1..n -> V] : n \in 0..MaxLen}

\* The slice 1, 2, .., n.
Ramp(n) == [i \in 1..n |-> i]

\* The component type's projection type and the components of the world, in
\* the order the query yields them: every order of the short slices.
Populations ==
    {<<"u8", c>> : c \in Slices(U8Values)}
        \cup {<<"f32", c>> : c \in Slices(F32Values)}
        \cup {<<"usize", TestItems>>, <<"f32", TestItems>>}
        \cup {<<"usize", Ramp(n)>> : n \in (MaxLen + 1)..MaxPopulation}

\* The slice in another order.
Reorderings(c) == {[i \in DOMAIN c |-> c[p[i]]] : p \in Permutations(DOMAIN c)} \ {c}

\* simulation.sample_aggregate::<C, Option<Minimum<O>>>()
SampleMinimum ==
    /\ app.state = "aggregate"
    /\ app' = [app EXCEPT !.last =
                  Call("Minimum", <<app.components>>, Minimum_sample_aggregate(app.components))]
    /\ UNCHANGED gridVars

SampleMaximum ==
    /\ app.state = "aggregate"
    /\ app' = [app EXCEPT !.last =
                  Call("Maximum", <<app.components>>, Maximum_sample_aggregate(app.components))]
    /\ UNCHANGED gridVars

\* The build profile decides what an overflow of the sum does.
SampleMean ==
    /\ app.state = "aggregate"
    /\ app.T # "f32"
    /\ \E profile \in {"debug", "release"} :
           app' = [app EXCEPT !.last =
                      Call("Mean", <<app.components, profile>>,
                           Mean_sample_aggregate(app.components, app.T, profile))]
    /\ UNCHANGED gridVars

SampleMedian ==
    /\ app.state = "aggregate"
    /\ \E std \in StdChoices(app.components) :
           app' = [app EXCEPT !.last =
                      Call("Median", <<app.components>>,
                           Median_sample_aggregate(app.components, std))]
    /\ UNCHANGED gridVars

SamplePercentile(P) ==
    /\ app.state = "aggregate"
    /\ \E std \in StdChoices(app.components) :
           app' = [app EXCEPT !.last =
                      Call("Percentile", <<app.components, P>>,
                           Percentile_sample_aggregate(app.components, P, std))]
    /\ UNCHANGED gridVars

InitAggr ==
    /\ \E p \in Populations :
           app = [state |-> "aggregate", T |-> p[1], components |-> p[2],
                  last |-> Call("new", <<>>, None)]
    /\ coord = "IVec2"
    /\ spatial_grid = SpatialGrid_new(None)
    /\ lastOp = NoOp
    /\ ret = None
    /\ world = NoWorld
    /\ changed = {}
    /\ removed = <<>>
    /\ phase = "sampling"

NextAggr ==
    \/ SampleMinimum
    \/ SampleMaximum
    \/ SampleMean
    \/ SampleMedian
    \/ \E P \in Percentiles : SamplePercentile(P)

SpecAggr == InitAggr /\ [][NextAggr]_vars

\* ---------------------------------------------------------------- the schedules of one step
\* The schedules App::update runs that the plugins add systems to, in the
\* order of bevy's Main schedule.
MainScheduleOrder == <<"First", "PreUpdate", "Update", "PostUpdate", "Last">>

ScheduleIndex(label) == CHOOSE i \in DOMAIN MainScheduleOrder : MainScheduleOrder[i] = label

\* App::add_systems(schedule, (s1, s2, ..).chain()): every system runs in the
\* schedule, after the system before it in the chain.
App_add_systems(a, schedule, chain) ==
    [a EXCEPT !.schedules = @ \cup
        {[system |-> chain[i], schedule |-> schedule,
          after |-> IF i = 1 THEN "" ELSE chain[i - 1]] : i \in DOMAIN chain}]

\* StepCounterPlugin::build
StepCounterPlugin_build(a) ==
    App_add_systems(StepCounterPlugin_init(a), "First", <<"step_counter_increment">>)

\* SpatialGridPlugin::build, with the systems added to Last.
SpatialGridPlugin_build_Last(a) ==
    App_add_systems(a, "Last", <<"spatial_grid_update_system", "spatial_grid_cleanup_system">>)

\* SpatialGridPlugin::build
SpatialGridPlugin_build(a) ==
    App_add_systems(a, "PreUpdate", <<"spatial_grid_update_system", "spatial_grid_cleanup_system">>)

\* SimulationBuilder::add_systems(systems), the systems being one rule system
\* that reads the index and moves or despawns entities.
SimulationBuilder_add_systems(a) == App_add_systems(a, "Update", <<"user_system">>)

\* AggregateTimeSeriesPlugin::build
AggregateTimeSeriesPlugin_build(a) ==
    App_add_systems(a, "PostUpdate", <<"aggregate_time_series_sample">>)

\* TimeSeriesPlugin::build
TimeSeriesPlugin_build(a) ==
    App_add_systems(a, "PostUpdate", <<"time_series_init", "time_series_sample">>)

\* The systems that sample.
Samplers == {"aggregate_time_series_sample", "time_series_sample"}

SystemNames ==
    {"step_counter_increment", "spatial_grid_update_system", "spatial_grid_cleanup_system",
     "user_system", "time_series_init"} \cup Samplers

\* The systems of the schedules of an app.
SystemsOf(a) == {s.system : s \in a.schedules}

\* A system may run next: no system of an earlier schedule is still to run,
\* and the system it is chained after has run.
Ready(a, s) ==
    /\ s.system \in a.pending
    /\ \A t \in a.schedules :
          t.system \in a.pending => ScheduleIndex(t.schedule) >= ScheduleIndex(s.schedule)
    /\ s.after \notin a.pending

\* What one system does.  The world is the number of moves and of removals
\* made so far; the index holds the moves and the removals it has been told of;
\* the rule system notes what it reads and a sampler what it samples.
run_system(a, name, moves, despawns) ==
    LET b == [a EXCEPT !.pending = @ \ {name}, !.ran = Append(@, name)]
    IN CASE name = "step_counter_increment" -> step_counter_increment(b)
         [] name = "spatial_grid_update_system" -> [b EXCEPT !.index.moves = a.world.moves]
         [] name = "spatial_grid_cleanup_system" -> [b EXCEPT !.index.removals = a.world.removals]
         [] name = "user_system" ->
                [b EXCEPT !.read = Some([index |-> a.index, world |-> a.world]),
                          !.world = [moves |-> @.moves + moves, removals |-> @.removals + despawns]]
         [] name \in Samplers ->
                [b EXCEPT !.sampled = MapInsert(@, name, [step |-> a.step_counter, world |-> a.world])]
         [] OTHER -> b

\* SimulationBuilder::new: the step counter's plugin, then one App::update.
SimulationBuilder_new_schedules ==
    LET a == StepCounterPlugin_build(
                 [state |-> "builder", schedules |-> {}, pending |-> {}, ran |-> <<>>,
                  step_counter |-> 0, world |-> [moves |-> 0, removals |-> 0],
                  index |-> [moves |-> 0, removals |-> 0], read |-> None,
                  sampled |-> EmptyMap, n |-> 0])
    IN run_system([a EXCEPT !.pending = SystemsOf(a)], "step_counter_increment", 0, 0)

AddSpatialGrid ==
    /\ app.state = "builder"
    /\ "spatial_grid_update_system" \notin SystemsOf(app)
    /\ app' = SpatialGridPlugin_build(app)
    /\ UNCHANGED gridVars

AddSystems ==
    /\ app.state = "builder"
    /\ "user_system" \notin SystemsOf(app)
    /\ app' = SimulationBuilder_add_systems(app)
    /\ UNCHANGED gridVars

AddAggregateTimeSeries ==
    /\ app.state = "builder"
    /\ "aggregate_time_series_sample" \notin SystemsOf(app)
    /\ app' = AggregateTimeSeriesPlugin_build(app)
    /\ UNCHANGED gridVars

AddTimeSeries ==
    /\ app.state = "builder"
    /\ "time_series_sample" \notin SystemsOf(app)
    /\ app' = TimeSeriesPlugin_build(app)
    /\ UNCHANGED gridVars

\* SimulationBuilder::build: the spawners place the entities.
BuildSchedules ==
    /\ app.state = "builder"
    /\ app' = [app EXCEPT !.state = "simulation", !.world.moves = @ + 1]
    /\ UNCHANGED gridVars

\* App::update of one turn of Simulation::run begins: every system is to run.
AppUpdate ==
    /\ app.state = "simulation"
    /\ app.pending = {}
    /\ app.n < MaxSteps
    /\ app' = [app EXCEPT !.pending = SystemsOf(app), !.ran = <<>>, !.n = @ + 1]
    /\ UNCHANGED gridVars

\* The next system of the update runs.
RunSystem(s) ==
    /\ app.state = "simulation"
    /\ Ready(app, s)
    /\ \E moves \in 0..1, despawns \in 0..1 :
           /\ s.system # "user_system" => (moves = 0 /\ despawns = 0)
           /\ app' = run_system(app, s.system, moves, despawns)
    /\ UNCHANGED gridVars

InitSchedules ==
    /\ app = SimulationBuilder_new_schedules
    /\ coord = "IVec2"
    /\ spatial_grid = SpatialGrid_new(None)
    /\ lastOp = NoOp
    /\ ret = None
    /\ world = NoWorld
    /\ changed = {}
    /\ removed = <<>>
    /\ phase = "schedules"

NextSchedules ==
    \/ AddSpatialGrid
    \/ AddSystems
    \/ AddAggregateTimeSeries
    \/ AddTimeSeries
    \/ BuildSchedules
    \/ AppUpdate
    \/ \E s \in app.schedules : RunSystem(s)

SpecSchedules == InitSchedules /\ [][NextSchedules]_vars

\* ---------------------------------------------------------------- the index on three cells
\* Three cells: the origin, which the smaller box of BoundsChoices leaves
\* outside, a cell every box of BoundsChoices holds and a third cell.
FramePositions(t) ==
    IF t = "IVec2"
    THEN {<<0, 0>>, <<1, 1>>, <<MaxCoord, 1>>}
    ELSE {<<0, 0, 0>>, <<1, 0, 0>>, <<1, 1, 1>>}

\* The calls on the index, with the positions of FramePositions.
NextFrame ==
    \/ \E e \in Entities, p \in FramePositions(coord) : Insert(e, p)
    \/ \E e \in Entities : Remove(e)
    \/ Clear
    \/ \E b \in BoundsChoices(coord) : SetBounds(b)

SpecFrame == Init /\ [][NextFrame]_vars

\* ---------------------------------------------------------------- Simulation::run
\* The steps one call of run may be asked for.
MaxRun == 2

\* for _ in i..num_steps { self.app.update(); }
RECURSIVE for_each_step(_, _, _)
for_each_step(a, i, num_steps) ==
    IF i >= num_steps THEN a
    ELSE for_each_step([App_update(a, 0) EXCEPT !.n = @ + 1], i + 1, num_steps)

\* run, with the loop over 0..=num_steps.
run_inclusive(a, num_steps) == for_each_step(a, 0, num_steps + 1)

\* Simulation::run
run(a, num_steps) == for_each_step(a, 0, num_steps)

\* simulation.run(num_steps), the user's systems despawning nothing.
RunSteps(num_steps) ==
    /\ app.state = "simulation"
    /\ app.n + num_steps <= MaxSteps
    /\ app' = [run(app, num_steps) EXCEPT !.last = Call("run", <<num_steps>>, None)]
    /\ UNCHANGED gridVars

\* A simulation of counters and their series, built and run some steps at a time.
NextRun ==
    \/ \E s \in 1..MaxInterval : RecordAggregateTimeSeriesFiltered("()", "usize", s)
    \/ \E s \in 1..MaxInterval : RecordTimeSeries(s)
    \/ \E b \in Bundles : AddEntitySpawner(b)
    \/ Build
    \/ \E k \in 0..MaxRun : RunSteps(k)

SpecRun == InitSim /\ [][NextRun]_vars

\* ---------------------------------------------------------------- calls on a coordinate
\* The axis values of the coordinates around the origin: -MaxAxis..MaxAxis.
MaxAxis == 1

\* The build profiles: debug has overflow checks, release has none.
Profiles == {"debug", "release"}

\* What consuming an iterator gives: the collected items, or, in a build with
\* overflow checks, the panic of the addition or subtraction that left i32
\* ('attempt to add with overflow', 'attempt to subtract with overflow').
checked(profile, overflow, items) ==
    IF profile = "debug" /\ overflow
    THEN Panic("arithmetic overflow")
    ELSE Some(items)

\* The coordinates no farther than r from p on every axis.
Box(p, r) ==
    LET axis(v) == {IF add_overflows(v, k) THEN v ELSE v + k : k \in (-r)..r}
    IN  IF Len(p) = 2
        THEN {<<x, y>> : x \in axis(p[1]), y \in axis(p[2])}
        ELSE {<<x, y, z>> : x \in axis(p[1]), y \in axis(p[2]), z \in axis(p[3])}

\* The coordinates the calls are made on: the ones around the origin, and
\* coordinates at, and one step from, the ends of i32.
Coordinates(t) ==
    Box(Diag(t, 0), MaxAxis)
        \cup (IF t = "IVec2"
              THEN {<<i32_MAX, 0>>, <<0, i32_MIN>>, <<i32_MAX - 1, i32_MIN + 1>>}
              ELSE {<<0, 0, i32_MAX>>, <<i32_MIN, 0, 0>>, <<i32_MAX - 1, 0, i32_MIN + 1>>})

\* The corners bounds are made of, in either order.
Corners(t) ==
    {Diag(t, v) : v \in (-MaxAxis)..MaxAxis}
        \cup (IF t = "IVec2" THEN {EAST, SOUTH} ELSE {EAST_3D, SOUTH_3D, UP})

\* p.neighbors().collect()
Neighbors(profile) ==
    /\ app.state = "coordinate"
    /\ app.last.op = "new"
    /\ app' = [app EXCEPT !.last =
                  Call("neighbors", <<profile>>,
                       checked(profile,
                               \E dir \in Range(neighbors(Diag(coord, 0))) : Add_overflows(app.self, dir),
                               neighbors(app.self)))]
    /\ UNCHANGED gridVars

\* p.neighbors_orthogonal().collect()
NeighborsOrthogonal(profile) ==
    /\ app.state = "coordinate"
    /\ app.last.op = "new"
    /\ app' = [app EXCEPT !.last =
                  Call("neighbors_orthogonal", <<profile>>,
                       checked(profile,
                               \E dir \in Range(neighbors_orthogonal(Diag(coord, 0))) :
                                   Add_overflows(app.self, dir),
                               neighbors_orthogonal(app.self)))]
    /\ UNCHANGED gridVars

\* p.coordinates_within_distance(distance).collect()
CoordinatesWithinDistance(distance, profile) ==
    /\ app.state = "coordinate"
    /\ app.last.op = "new"
    /\ app' = [app EXCEPT !.last =
                  Call("coordinates_within_distance", <<distance, profile>>,
                       checked(profile,
                               \E i \in DOMAIN app.self :
                                   sub_overflows(app.self[i], distance) \/ add_overflows(app.self[i], distance),
                               coordinates_within_distance(app.self, distance)))]
    /\ UNCHANGED gridVars

\* p.manhattan_distance(other), for other on the lattice around p.
ManhattanDistance(other) ==
    /\ app.state = "coordinate"
    /\ app.last.op = "new"
    /\ app' = [app EXCEPT !.last =
                  Call("manhattan_distance", <<other>>, Some(manhattan_distance(app.self, other)))]
    /\ UNCHANGED gridVars

\* GridBounds::new(min, max).contains(p), the corners in either order.
Contains(min, max) ==
    /\ app.state = "coordinate"
    /\ app.last.op = "new"
    /\ app' = [app EXCEPT !.last =
                  Call("contains", <<min, max>>, Some(contains(GridBounds_new(min, max), app.self)))]
    /\ UNCHANGED gridVars

\* GridBounds::new_3d(..).contains(p)
Contains3D(min, max) ==
    /\ app.state = "coordinate"
    /\ app.last.op = "new"
    /\ coord = "IVec3"
    /\ app' = [app EXCEPT !.last =
                  Call("contains", <<min, max>>,
                       Some(contains(GridBounds_new_3d(min[1], max[1], min[2], max[2], min[3], max[3]),
                                     app.self)))]
    /\ UNCHANGED gridVars

\* A coordinate of either type, on which one call is made.
InitCoord ==
    /\ coord \in {"IVec2", "IVec3"}
    /\ \E p \in Coordinates(coord) :
           app = [state |-> "coordinate", self |-> p, last |-> Call("new", <<>>, None)]
    /\ spatial_grid = SpatialGrid_new(None)
    /\ lastOp = NoOp
    /\ ret = None
    /\ world = NoWorld
    /\ changed = {}
    /\ removed = <<>>
    /\ phase = "coordinate"

NextCoord ==
    \/ \E profile \in Profiles : Neighbors(profile)
    \/ \E profile \in Profiles : NeighborsOrthogonal(profile)
    \/ \E d \in 0..MaxDist, profile \in Profiles : CoordinatesWithinDistance(d, profile)
    \/ \E other \in Box(app.self, MaxAxis) : ManhattanDistance(other)
    \/ \E min \in Corners(coord), max \in Corners(coord) : Contains(min, max)
    \/ \E min \in Corners(coord), max \in Corners(coord) : Contains3D(min, max)

SpecCoord == InitCoord /\ [][NextCoord]_vars

\* ---------------------------------------------------------------- properties of the index
\* Every position the index or its callers name.
KnownPositions ==
    Lattice(coord) \cup DOMAIN spatial_grid.position_to_entities
                   \cup {spatial_grid.entity_to_position[e] : e \in DOMAIN spatial_grid.entity_to_position}

NoDuplicates(s) == Cardinality(Range(s)) = Len(s)

\* max over the axes of the absolute difference
chebyshev_distance(a, b) ==
    IF Len(a) = 2
    THEN Max(Abs(a[1] - b[1]), Abs(a[2] - b[2]))
    ELSE Max(Abs(a[1] - b[1]), Max(Abs(a[2] - b[2]), Abs(a[3] - b[3])))

InBounds(p) == spatial_grid.bounds = None \/ contains(spatial_grid.bounds[1], p)

\* C1: after every operation, an entity e is in entities_at(p) if and only if
\* position_of(e) is Some(p): the two maps describe the same relation.
C1_IndexConsistency ==
    \A p \in KnownPositions : \A e \in Entities :
        e \in entities_at(spatial_grid, p) <=> position_of(spatial_grid, e) = Some(p)

\* C1 witness: an insert has moved an entity onto a position another entity holds.
C1_Witness ==
    /\ lastOp.op = "insert"
    /\ lastOp.was = "other"
    /\ Cardinality(entities_at(spatial_grid, lastOp.position[1])) >= 2

\* C2: after every operation, every key of the position -> entities map holds a
\* non-empty set; taking the last entity off a position deletes the key.
C2_NoEmptyPositionKeys ==
    /\ \A p \in DOMAIN spatial_grid.position_to_entities :
           spatial_grid.position_to_entities[p] # {}
    /\ lastOp.op = "remove" /\ ret # None /\ entities_at(spatial_grid, ret[1]) = {}
           => ret[1] \notin DOMAIN spatial_grid.position_to_entities

\* C2 witness: a remove has taken the last entity off its position while
\* another position is still occupied.
C2_Witness ==
    /\ lastOp.op = "remove"
    /\ ret # None
    /\ ret[1] \notin DOMAIN spatial_grid.position_to_entities
    /\ DOMAIN spatial_grid.position_to_entities # {}

\* C4, as claimed: with bounds configured, insert(entity, position) with a
\* position outside the bounds does not add the entity to the index.
C4_OutOfBoundsInsertRejected ==
    (/\ lastOp.op = "insert"
     /\ spatial_grid.bounds # None
     /\ ~contains(spatial_grid.bounds[1], lastOp.position[1]))
        => position_of(spatial_grid, lastOp.entity) # lastOp.position

\* C5: insert(e, Q) on an entity indexed at P # Q leaves e at Q and only at Q,
\* in both maps, and leaves every other entity and the bounds as they were.
C5_MoveSemantics ==
    [][\A e \in Entities : \A Q \in Lattice(coord) :
        (/\ position_of(spatial_grid, e) \notin {None, Some(Q)}
         /\ lastOp'.op = "insert" /\ lastOp'.entity = e /\ lastOp'.position = Some(Q))
        => LET P == spatial_grid.entity_to_position[e]
           IN  /\ position_of(spatial_grid', e) = Some(Q)
               /\ e \in entities_at(spatial_grid', Q)
               /\ e \notin entities_at(spatial_grid', P)
               /\ {p \in Lattice(coord) \cup DOMAIN spatial_grid'.position_to_entities :
                       e \in entities_at(spatial_grid', p)} = {Q}
               /\ \A f \in Entities \ {e} :
                       position_of(spatial_grid', f) = position_of(spatial_grid, f)
               /\ \A p \in Lattice(coord) :
                       entities_at(spatial_grid', p) \ {e} = entities_at(spatial_grid, p) \ {e}
               /\ DOMAIN spatial_grid'.position_to_entities \subseteq Lattice(coord)
               /\ spatial_grid'.bounds = spatial_grid.bounds]_vars

\* C5 witness: an insert has moved an entity away from a position that another
\* entity keeps.
C5_Witness ==
    /\ lastOp.op = "insert"
    /\ lastOp.was = "other"
    /\ position_of(spatial_grid, lastOp.entity) = lastOp.position
    /\ \E f \in Entities \ {lastOp.entity} :
           /\ position_of(spatial_grid, f) # None
           /\ position_of(spatial_grid, f) # lastOp.position

\* C6: a second insert(e, p) right after insert(e, p) changes neither map.
C6_InsertIdempotent ==
    [][(/\ lastOp.op = "insert" /\ lastOp'.op = "insert"
        /\ lastOp'.entity = lastOp.entity /\ lastOp'.position = lastOp.position)
       => spatial_grid' = spatial_grid]_vars

\* C6 witness: insert(e, p) was called on an entity already at p, which it
\* shares with another entity.
C6_Witness ==
    /\ lastOp.op = "insert"
    /\ lastOp.was = "same"
    /\ Cardinality(entities_at(spatial_grid, lastOp.position[1])) >= 2

\* C7: remove(entity) on an entity that is not indexed returns None and leaves
\* the index as it was.
C7_RemoveAbsentNoOp ==
    [][\A e \in Entities :
        (/\ position_of(spatial_grid, e) = None
         /\ lastOp'.op = "remove" /\ lastOp'.entity = e)
        => (ret' = None /\ spatial_grid' = spatial_grid)]_vars

\* C7 witness: remove was called on an entity that was not indexed, while the
\* origin held another entity.
C7_Witness ==
    /\ lastOp.op = "remove"
    /\ lastOp.was = "absent"
    /\ ret = None
    /\ entities_at(spatial_grid, Diag(coord, 0)) # {}

\* C8: with bounds configured, neighbors_of and orthogonal_neighbors_of never
\* return an entity whose indexed position lies outside the bounds.
C8_BoundsFiltering ==
    spatial_grid.bounds # None =>
        \A p \in QueryPositions(coord) :
            \A e \in Range(neighbors_of(spatial_grid, p))
                        \cup Range(orthogonal_neighbors_of(spatial_grid, p)) :
                /\ position_of(spatial_grid, e) # None
                /\ contains(spatial_grid.bounds[1], position_of(spatial_grid, e)[1])

\* C8 witness: set_bounds has installed bounds that leave an indexed entity
\* outside, orthogonally next to a position inside.
C8_Witness ==
    /\ lastOp.op = "set_bounds"
    /\ \E e \in DOMAIN spatial_grid.entity_to_position : \E p \in Lattice(coord) :
           /\ ~contains(spatial_grid.bounds[1], spatial_grid.entity_to_position[e])
           /\ contains(spatial_grid.bounds[1], p)
           /\ manhattan_distance(p, spatial_grid.entity_to_position[e]) = 1

\* C9: neighbors_of(p) returns exactly the entities indexed at a Moore neighbor
\* of p that satisfies the bounds, orthogonal_neighbors_of(p) those at a Von
\* Neumann neighbor, each once and never an entity at p itself.
C9_NeighborQueriesExact ==
    \A p \in QueryPositions(coord) :
        LET moore == neighbors_of(spatial_grid, p)
            ortho == orthogonal_neighbors_of(spatial_grid, p)
        IN  /\ NoDuplicates(moore)
            /\ Range(moore) =
                   {e \in DOMAIN spatial_grid.entity_to_position :
                       /\ chebyshev_distance(spatial_grid.entity_to_position[e], p) = 1
                       /\ InBounds(spatial_grid.entity_to_position[e])}
            /\ NoDuplicates(ortho)
            /\ Range(ortho) =
                   {e \in DOMAIN spatial_grid.entity_to_position :
                       /\ manhattan_distance(spatial_grid.entity_to_position[e], p) = 1
                       /\ InBounds(spatial_grid.entity_to_position[e])}

\* C9 witness: around one position there are an entity on it, an entity on a
\* diagonal neighbor, and bounds that cut a neighbor position off.
C9_Witness ==
    /\ spatial_grid.bounds # None
    /\ \E p \in Lattice(coord) :
           /\ entities_at(spatial_grid, p) # {}
           /\ Len(neighbors_of(spatial_grid, p)) = 1
           /\ Len(orthogonal_neighbors_of(spatial_grid, p)) = 0
           /\ \E q \in Range(neighbors(p)) : ~InBounds(q)

\* ---------------------------------------------------------------- properties of the refresh
\* C3, as claimed: right after the update and cleanup systems have run, an
\* entity is indexed at p if and only if it exists and carries GridPosition p.
C3_IndexedIffMarker ==
    phase = "refreshed" =>
        \A e \in Entities : position_of(spatial_grid, e) = world[e].marker

\* ---------------------------------------------------------------- properties of the distance query
\* The union of entities_at over the in-bounds coordinates that
\* coordinates_within_distance(center, d) produces.
EntitiesWithin(center, d) ==
    UNION {entities_at(spatial_grid, c) :
             c \in {x \in Range(coordinates_within_distance(center, d)) : InBounds(x)}}

IsPrefix(s, t) == Len(s) <= Len(t) /\ \A i \in 1..Len(s) : s[i] = t[i]

\* The aggregate series registered on the app.
SeriesKeys == DOMAIN app.time_series

\* The entities that exist and carry a per-entity series.
Tracked == {i \in DOMAIN app.entities : app.entities[i].alive /\ app.entities[i].time_series # None}

\* C11: an aggregate time series of sample interval s holds exactly floor(n / s)
\* values after n steps run since build (10 values after 100 steps with s = 10,
\* 11 after 10 more).
C11_Cadence ==
    (app.state = "simulation" /\ app.resets = 0) =>
        \A key \in SeriesKeys :
            Len(app.time_series[key].values) = app.n \div app.time_series[key].sample_interval

\* C12: in the test of the counter (one counter incremented by 1 in every step,
\* sample interval 10) the i-th value is the sum after exactly 10 * i steps: the
\* series is [10, 20, .., 100] after 100 steps and the same followed by 110
\* after 10 more.
C12_ValuesOfSampledSteps ==
    LET values == app.time_series[<<"()", "usize">>].values
    IN /\ app.n = NUM_STEPS =>
              values = [i \in 1..(NUM_STEPS \div TestInterval) |-> i * TestInterval]
       /\ app.n = NUM_STEPS + TestMoreSteps =>
              values = [i \in 1..((NUM_STEPS + TestMoreSteps) \div TestInterval) |-> i * TestInterval]

C14_PerEntityCadence ==
    app.state = "simulation" =>
        \A i \in Tracked :
            LET ts == app.entities[i].time_series[1]
            IN Len(ts.values) <= (app.n + 1) \div ts.sample_interval

\* C15: absent a reset, a step never removes, reorders or alters a recorded
\* value: each series before the step is a prefix of the series after it.
C15_AppendOnly ==
    [][(app.state = "simulation" /\ app'.state = "simulation" /\ app'.resets = app.resets) =>
          /\ DOMAIN app'.time_series = DOMAIN app.time_series
          /\ \A key \in DOMAIN app.time_series :
                 IsPrefix(app.time_series[key].values, app'.time_series[key].values)
          /\ \A i \in DOMAIN app.entities :
                 (app.entities[i].time_series # None /\ app'.entities[i].alive) =>
                     /\ app'.entities[i].time_series # None
                     /\ IsPrefix(app.entities[i].time_series[1].values,
                                 app'.entities[i].time_series[1].values)]_vars

\* An aggregate series and a per-entity series with two values each.
C15_Witness ==
    /\ app.state = "simulation"
    /\ \E key \in SeriesKeys : Len(app.time_series[key].values) >= 2
    /\ \E i \in Tracked : Len(app.entities[i].time_series[1].values) >= 2

\* C16: after a reset the step counter is 0 and every series is empty; the
\* values a series holds later were all recorded after the reset (floor(n / s)
\* of them after n steps).
C16_ResetIsolation ==
    /\ app.last.op = "reset" =>
           /\ app.step_counter = 0
           /\ \A key \in SeriesKeys : app.time_series[key].values = <<>>
           /\ Tracked = {}
    /\ (app.state = "simulation" /\ app.resets > 0) =>
           /\ app.step_counter = app.n
           /\ \A key \in SeriesKeys :
                  /\ Len(app.time_series[key].values) = app.n \div app.time_series[key].sample_interval
                  /\ \A i \in DOMAIN app.sampled_at[key] : app.sampled_at[key][i] <= app.n
           /\ \A i \in Tracked : Len(app.entities[i].time_series[1].values) <= app.n

\* A reset that found values in the series.
C16_Witness ==
    /\ app.last.op = "reset"
    /\ app.dropped > 0
    /\ SeriesKeys # {}

\* ---------------------------------------------------------------- properties of the builder and of sampling
RecordAggregate == "record_aggregate_time_series_filtered"

\* C17: registering an aggregate series for a triple (MyCounter, F, O) with a
\* positive sample interval succeeds if and only if that triple is not yet
\* registered; a second registration of the triple returns
\* Err(TimeSeriesRecordingConflict), with no panic and whatever its interval,
\* and leaves the registered series as it was; a triple that differs in the
\* output or in the filter is registered with the interval given.
C17_RegistrationUniqueness ==
    [][(app' # app /\ app'.last.op = RecordAggregate /\ app'.last.args[3] > 0) =>
          LET key == <<app'.last.args[1], app'.last.args[2]>>
          IN /\ app'.state = "builder"
             /\ is_ok(app'.last.ret) <=> key \notin DOMAIN app.time_series
             /\ key \in DOMAIN app.time_series =>
                    /\ app'.last.ret = Err("TimeSeriesRecordingConflict")
                    /\ app'.time_series = app.time_series
             /\ key \notin DOMAIN app.time_series =>
                    /\ DOMAIN app'.time_series = DOMAIN app.time_series \cup {key}
                    /\ app'.time_series[key] = TimeSeries_new(app'.last.args[3])
                    /\ \A k \in DOMAIN app.time_series : app'.time_series[k] = app.time_series[k]]_vars

\* A conflict on a triple registered with another interval, while the triples
\* that differ from it in the output only and in the filter only are registered.
C17_Witness ==
    /\ app.last.op = RecordAggregate
    /\ app.last.ret = Err("TimeSeriesRecordingConflict")
    /\ LET F == app.last.args[1]
           O == app.last.args[2]
       IN /\ app.time_series[<<F, O>>].sample_interval # app.last.args[3]
          /\ \E O2 \in Outputs \ {O} : <<F, O2>> \in DOMAIN app.time_series
          /\ \E F2 \in Filters \ {F} : <<F2, O>> \in DOMAIN app.time_series

RecordCalls == {RecordAggregate, "record_time_series"}

\* The sample interval the last call of a record_* method was given.
LastInterval == app.last.args[Len(app.last.args)]

\* C18: registering a series with sample interval 0 returns an error value to
\* the caller and raises no panic.
C18_ZeroIntervalReturnsError ==
    (app.last.op \in RecordCalls /\ LastInterval = 0) =>
        /\ app.state # "panicked"
        /\ is_err(app.last.ret)

\* C18, as the code has it: registering a series with sample interval 0 panics
\* at setup time and returns nothing; no series is registered with interval 0
\* and no step runs after the panic.
C18_ZeroIntervalPanics ==
    /\ (app.last.op \in RecordCalls /\ LastInterval = 0) =>
           /\ app.state = "panicked"
           /\ app.last.ret = None
    /\ app.state = "panicked" => (app.n = 0 /\ app.entities = <<>> /\ app.step_counter = 1)
    /\ \A key \in SeriesKeys : app.time_series[key].sample_interval > 0
    /\ app.sample_interval # None => app.sample_interval[1] > 0
    /\ \A i \in Tracked : app.entities[i].time_series[1].sample_interval > 0

\* A registration with interval 0 after one that succeeded.
C18_Witness ==
    /\ app.last.op \in RecordCalls
    /\ LastInterval = 0
    /\ app.state = "panicked"
    /\ SeriesKeys # {} \/ app.sample_interval # None

\* The entities that exist and carry a MyCounter.
Counters == {i \in DOMAIN app.entities : app.entities[i].alive /\ app.entities[i].counter # None}

\* C19: sample_aggregate::<MyCounter, usize>() returns an error whenever no
\* MyCounter exists, never spawned or all removed.
C19_SampleAggregateErrWithoutInstance ==
    (app.state = "simulation" /\ Counters = {}) => is_err(sample_aggregate(app, "usize"))

\* The entities that exist and carry the identifier id.
Carriers(id) == {i \in DOMAIN app.entities : app.entities[i].alive /\ app.entities[i].id = Some(id)}

\* C20: sample(id) is Ok(the entity's value) if and only if exactly one entity
\* carries id, EntityIdentifierNotFound when none does and
\* EntityIdentifierNotUnique when more than one does.
C20_SampleByIdentifier ==
    app.state = "simulation" =>
        \A id \in CounterIds :
            LET r == sample(app, id)
                c == Cardinality(Carriers(id))
            IN /\ is_ok(r) <=> c = 1
               /\ c = 0 => r = Err("EntityIdentifierNotFound")
               /\ c > 1 => r = Err("EntityIdentifierNotUnique")

\* C20, as the code has it: with MyCounter and CounterId both registered in the
\* world, sample(id) is Ok(the value of the MyCounter) if and only if exactly
\* one entity carries both a MyCounter and id, EntityIdentifierNotFound when
\* none does and EntityIdentifierNotUnique when more than one does; with one
\* of the two types not registered it is ComponentMissing.
C20_SampleByIdentifierAndComponent ==
    app.state = "simulation" =>
        \A id \in CounterIds :
            LET r == sample(app, id)
                both == Carriers(id) \cap Counters
                c == Cardinality(both)
                known == "MyCounter" \in app.registered /\ "CounterId" \in app.registered
            IN /\ is_ok(r) <=> (known /\ c = 1)
               /\ (known /\ c = 1) => \A i \in both : r = Ok(app.entities[i].counter[1])
               /\ (known /\ c = 0) => r = Err("EntityIdentifierNotFound")
               /\ (known /\ c > 1) => r = Err("EntityIdentifierNotUnique")
               /\ ~known => (r = Err("ComponentMissing") /\ c = 0)

\* Two entities share an identifier after a step, and another identifier is absent.
C20_Witness ==
    /\ app.state = "simulation"
    /\ app.n > 0
    /\ \E id \in CounterIds : Cardinality(Carriers(id) \cap Counters) = 2
    /\ \E id \in CounterIds : sample(app, id) = Err("EntityIdentifierNotFound")

\* The entities of a that exist and carry both a MyCounter and the identifier id.
CountedCarriers(a, id) ==
    {i \in DOMAIN a.entities :
        a.entities[i].alive /\ a.entities[i].counter # None /\ a.entities[i].id = Some(id)}

Sampled(op) == app.state = "aggregate" /\ app.last.op = op

NoNaN(c) == \A i \in DOMAIN c : c[i] # NaN

\* v is the value at index k (from 0) of the values of c in ascending order:
\* it occurs in c, at most k values are smaller and more than k are not larger.
AtSortedIndex(c, k, v) ==
    /\ \E i \in DOMAIN c : c[i] = v
    /\ Cardinality({i \in DOMAIN c : c[i] < v}) <= k
    /\ k < Cardinality({i \in DOMAIN c : c[i] <= v})

\* C22: Percentile<P> over a non-empty slice of n values that all compare
\* returns, for every P in 0..100, the value at index floor(P * n / 100) of
\* the values in ascending order; over the ten values 1, 3, .., 19 it returns
\* 3 for P = 10 and 15 for P = 70.
C22_PercentileIndex ==
    Sampled("Percentile") =>
        LET c == app.last.args[1]
            P == app.last.args[2]
            r == app.last.ret
        IN /\ (c # <<>> /\ NoNaN(c)) =>
                  (is_some(r) /\ AtSortedIndex(c, (P * Len(c)) \div 100, r[1]))
           /\ (c = TestItems /\ P = 10) => (is_some(r) /\ r[1] = 3)
           /\ (c = TestItems /\ P = 70) => (is_some(r) /\ r[1] = 15)

\* C23: Median over a non-empty slice of n values that all compare returns
\* the value at index floor(n / 2) of the values in ascending order, the upper
\* of the two middle values when n is even; over the ten values 1, 3, .., 19
\* it returns 11.
C23_MedianIndex ==
    Sampled("Median") =>
        LET c == app.last.args[1]
            r == app.last.ret
        IN /\ (c # <<>> /\ NoNaN(c)) =>
                  (is_some(r) /\ AtSortedIndex(c, Len(c) \div 2, r[1]))
           /\ c = TestItems => (is_some(r) /\ r[1] = 11)

\* The median of an even number of values whose two middle values differ.
C23_Witness ==
    /\ Sampled("Median")
    /\ \E c \in {app.last.args[1]} :
           /\ NoNaN(c)
           /\ Len(c) > 0
           /\ Len(c) % 2 = 0
           /\ is_some(app.last.ret)
           /\ Cardinality({i \in DOMAIN c : c[i] < app.last.ret[1]}) = Len(c) \div 2

\* What the last call can return for the components c.
Outcomes(c) ==
    LET op == app.last.op
    IN IF op = "Minimum" THEN {Minimum_sample_aggregate(c)}
       ELSE IF op = "Maximum" THEN {Maximum_sample_aggregate(c)}
       ELSE IF op = "Mean" THEN {Mean_sample_aggregate(c, app.T, app.last.args[2])}
       ELSE IF op = "Median" THEN {Median_sample_aggregate(c, std) : std \in StdChoices(c)}
       ELSE {Percentile_sample_aggregate(c, app.last.args[2], std) : std \in StdChoices(c)}

\* C24: the result of Minimum, Maximum, Mean, Median and Percentile over a
\* slice (of at most MaxLen values) is the result over every other order of
\* the same values.
C24_OrderIndependent ==
    (app.state = "aggregate" /\ app.last.op # "new" /\ Len(app.last.args[1]) <= MaxLen) =>
        \A c \in Reorderings(app.last.args[1]) : Outcomes(c) = {app.last.ret}

\* C25: Minimum, Maximum, Median and Percentile over a slice with two values
\* that do not compare (a NaN among two or more values) panic; none returns a
\* value.
C25_FailFastOnIncomparable ==
    (app.state = "aggregate" /\ app.last.op \in {"Minimum", "Maximum", "Median", "Percentile"}) =>
        (~Comparable(app.last.args[1]) => is_panic(app.last.ret))

\* C26: Mean over a non-empty slice of n values of an integer type returns the
\* sum of the values divided by n, the quotient truncated, the sum and n taken
\* as numbers; over the ten values 1, 3, .., 19 it returns 10.
C26_MeanIsSumOverCount ==
    Sampled("Mean") =>
        LET c == app.last.args[1]
            r == app.last.ret
        IN /\ c # <<>> => (is_some(r) /\ r[1] = SumSeq(c) \div Len(c))
           /\ c = TestItems => (is_some(r) /\ r[1] = 10)

\* C27: Minimum (Maximum) over a non-empty slice of values that all compare
\* returns a value of the slice that no value of the slice is below (above);
\* over the ten values 1, 3, .., 19 Minimum returns 1 and Maximum 19.
C27_MinimumMaximumBound ==
    /\ Sampled("Minimum") =>
        LET c == app.last.args[1]
            r == app.last.ret
        IN /\ (c # <<>> /\ NoNaN(c)) =>
                  (is_some(r) /\ r[1] \in Range(c) /\ \A i \in DOMAIN c : r[1] <= c[i])
           /\ c = TestItems => (is_some(r) /\ r[1] = 1)
    /\ Sampled("Maximum") =>
        LET c == app.last.args[1]
            r == app.last.ret
        IN /\ (c # <<>> /\ NoNaN(c)) =>
                  (is_some(r) /\ r[1] \in Range(c) /\ \A i \in DOMAIN c : r[1] >= c[i])
           /\ c = TestItems => (is_some(r) /\ r[1] = 19)

\* The minimum of a slice whose first value is not the smallest.
C27_Witness ==
    /\ Sampled("Minimum")
    /\ NoNaN(app.last.args[1])
    /\ Len(app.last.args[1]) >= 2
    /\ is_some(app.last.ret)
    /\ app.last.ret[1] < app.last.args[1][1]

\* C28: Minimum, Maximum, Mean, Median and Percentile return None, without a
\* panic, over the empty slice and Some(value) over every non-empty slice of
\* values that all compare.
C28_NoneIffEmpty ==
    (app.state = "aggregate" /\ app.last.op # "new") =>
        LET c == app.last.args[1]
            r == app.last.ret
        IN /\ c = <<>> => r = None
           /\ (c # <<>> /\ Comparable(c)) => is_some(r)

\* ---------------------------------------------------------------- properties of the step
\* In the update under way, s2 has run only after s1, if s1 is a system of the app.
RunsBefore(s1, s2) ==
    \A j \in DOMAIN app.ran :
        (app.ran[j] = s2 /\ s1 \in SystemsOf(app)) => \E i \in 1..(j - 1) : app.ran[i] = s1

\* C29: in every step the index is refreshed (the insert/update pass, then the
\* removal pass) before the rule systems run, and the series are sampled after
\* them: a rule system reads an index that holds every move and removal made
\* before the step, and a sample is of the world the step's rule systems left.
C29_StepPhaseOrder ==
    app.state = "simulation" =>
        /\ RunsBefore("spatial_grid_update_system", "spatial_grid_cleanup_system")
        /\ RunsBefore("spatial_grid_cleanup_system", "user_system")
        /\ \A s \in Samplers : RunsBefore("user_system", s)
        /\ ("spatial_grid_update_system" \in SystemsOf(app) /\ app.read # None)
               => app.read[1].index = app.read[1].world
        /\ \A s \in Samplers :
               (\E j \in DOMAIN app.ran : app.ran[j] = s)
                   => (app.sampled[s].world = app.world /\ app.sampled[s].step = app.step_counter)

\* A second step has run to its end with the index, a rule system that moved
\* and despawned entities, and both kinds of series.
C29_Witness ==
    /\ app.state = "simulation"
    /\ app.n >= 2
    /\ app.pending = {}
    /\ SystemsOf(app) = SystemNames
    /\ Len(app.ran) = Cardinality(SystemNames)
    /\ app.world.moves > 2
    /\ app.world.removals > 0

\* C30: the step counter is 0 before the first step of a run and n after n
\* steps: it grows by exactly one in every step.
C30_StepCounterCountsSteps ==
    app.state = "simulation" => app.step_counter = app.n

\* ---------------------------------------------------------------- Simulation::run
\* C31: run(n) executes exactly n steps and goes on from the current state:
\* from every state of a simulation, run(n) followed by run(m) leaves the state
\* run(n + m) leaves, the step counter and every MyCounter having advanced by n
\* after the first call and by n + m after the second.
C31_RunContinues ==
    app.state = "simulation" =>
        \A n \in 0..MaxRun, m \in 0..MaxRun :
            LET first  == run(app, n)
                second == run(first, m)
                counts(a, k) ==
                    /\ a.step_counter = app.step_counter + k
                    /\ \A i \in DOMAIN app.entities :
                           app.entities[i].alive /\ app.entities[i].counter # None =>
                               a.entities[i].counter = Some(app.entities[i].counter[1] + k)
            IN /\ second = run(app, n + m)
               /\ counts(first, n)
               /\ counts(second, n + m)

\* Two calls of run, each of at least one step, on a simulation with a counter
\* and an aggregate series.
C31_Witness ==
    /\ app.state = "simulation"
    /\ app.last.op = "run"
    /\ app.last.args[1] > 0
    /\ app.n > app.last.args[1]
    /\ \E i \in DOMAIN app.entities : app.entities[i].counter = Some(app.n)
    /\ \E k \in DOMAIN app.time_series : Len(app.time_series[k].values) > 0

\* ---------------------------------------------------------------- clear, remove, set_bounds
\* C32: clear() empties both maps from any state of the index: afterwards
\* num_entities() is 0, position_of is None for every entity, entities_at is
\* empty at every position, and the index is the one SpatialGrid::new gives for
\* the same bounds, so that every later insert or remove acts on it as on a new
\* index.
C32_ClearEmptiesBothMaps ==
    [][lastOp'.op = "clear" =>
        /\ num_entities(spatial_grid') = 0
        /\ \A e \in Entities : position_of(spatial_grid', e) = None
        /\ \A p \in KnownPositions : entities_at(spatial_grid', p) = {}
        /\ spatial_grid' = SpatialGrid_new(spatial_grid.bounds)
        /\ \A e \in Entities, p \in FramePositions(coord) :
               /\ insert(spatial_grid', e, p) = insert(SpatialGrid_new(spatial_grid.bounds), e, p)
               /\ remove(insert(spatial_grid', e, p), e)
                      = remove(insert(SpatialGrid_new(spatial_grid.bounds), e, p), e)]_vars

\* C32 witness: clear was called on an index that held entities, and bounds.
C32_Witness ==
    /\ lastOp.op = "clear"
    /\ lastOp.was = "indexed"
    /\ spatial_grid.bounds # None
    /\ spatial_grid = SpatialGrid_new(spatial_grid.bounds)

\* C39: remove(e) on an entity indexed at P returns Some(P), deletes e from
\* both maps and leaves every other entity where it was: its position, and the
\* set of every position but for e (entities sharing P stay in entities_at(P)).
C39_RemoveFrame ==
    [][\A e \in Entities :
        (/\ position_of(spatial_grid, e) # None
         /\ lastOp'.op = "remove" /\ lastOp'.entity = e)
        => LET P == spatial_grid.entity_to_position[e]
           IN  /\ ret' = Some(P)
               /\ position_of(spatial_grid', e) = None
               /\ e \notin DOMAIN spatial_grid'.entity_to_position
               /\ \A p \in DOMAIN spatial_grid'.position_to_entities :
                      e \notin spatial_grid'.position_to_entities[p]
               /\ \A f \in Entities \ {e} :
                      position_of(spatial_grid', f) = position_of(spatial_grid, f)
               /\ \A p \in KnownPositions :
                      entities_at(spatial_grid', p) = entities_at(spatial_grid, p) \ {e}
               /\ num_entities(spatial_grid') = num_entities(spatial_grid) - 1
               /\ spatial_grid'.bounds = spatial_grid.bounds]_vars

\* C39 witness: remove took an entity from a position that another entity
\* still holds.
C39_Witness ==
    /\ lastOp.op = "remove"
    /\ lastOp.was = "indexed"
    /\ ret # None
    /\ position_of(spatial_grid, lastOp.entity) = None
    /\ entities_at(spatial_grid, ret[1]) # {}

\* C40: set_bounds changes only the bounds: both maps stay as they were, so an
\* entity indexed outside the new bounds is still what position_of and
\* entities_at return and still counted by num_entities, while no neighbors_of
\* or orthogonal_neighbors_of query yields it.
C40_SetBoundsFrame ==
    [][lastOp'.op = "set_bounds" =>
        /\ spatial_grid'.bounds # None
        /\ spatial_grid'.bounds[1] \in BoundsChoices(coord)
        /\ spatial_grid'.position_to_entities = spatial_grid.position_to_entities
        /\ spatial_grid'.entity_to_position = spatial_grid.entity_to_position
        /\ num_entities(spatial_grid') = num_entities(spatial_grid)
        /\ \A e \in DOMAIN spatial_grid.entity_to_position :
               LET p == spatial_grid.entity_to_position[e]
               IN  ~contains(spatial_grid'.bounds[1], p) =>
                       /\ position_of(spatial_grid', e) = Some(p)
                       /\ e \in entities_at(spatial_grid', p)
                       /\ \A q \in QueryPositions(coord) \cup FramePositions(coord) :
                              /\ e \notin Range(neighbors_of(spatial_grid', q))
                              /\ e \notin Range(orthogonal_neighbors_of(spatial_grid', q))]_vars

\* C40 witness: set_bounds has left an indexed entity outside the bounds, next
\* to a cell inside them.
C40_Witness ==
    /\ lastOp.op = "set_bounds"
    /\ \E e \in DOMAIN spatial_grid.entity_to_position :
           /\ ~contains(spatial_grid.bounds[1], spatial_grid.entity_to_position[e])
           /\ \E q \in FramePositions(coord) :
                  /\ contains(spatial_grid.bounds[1], q)
                  /\ spatial_grid.entity_to_position[e] \in Range(neighbors(q))

\* ---------------------------------------------------------------- calls on a coordinate
\* The coordinate of the last call has no axis at an end of i32.
InsideI32(p) == \A i \in DOMAIN p : p[i] > i32_MIN /\ p[i] < i32_MAX

\* ns is a sequence of count pairwise distinct coordinates, each at most one
\* step from p on every axis and none p itself.
MooreNeighborhood(ns, p, count) ==
    /\ Len(ns) = count
    /\ NoDuplicates(ns)
    /\ \A q \in Range(ns) : q \in Box(p, 1) /\ q # p

\* ns is a sequence of count pairwise distinct coordinates, each exactly one
\* step from p on exactly one axis.
VonNeumannNeighborhood(ns, p, count) ==
    /\ Len(ns) = count
    /\ NoDuplicates(ns)
    /\ \A q \in Range(ns) : q \in Box(p, 1) /\ Cardinality({i \in DOMAIN p : q[i] # p[i]}) = 1

\* C33 as stated: for every coordinate p, neighbors(p) yields 8 (2D) or 26 (3D)
\* pairwise distinct coordinates, each at most 1 from p on every axis and none
\* equal to p; neighbors_orthogonal(p) yields 4 or 6 pairwise distinct
\* coordinates, each exactly 1 from p on exactly one axis.
C33_NeighborSets ==
    /\ app.last.op = "neighbors" =>
           /\ is_some(app.last.ret)
           /\ MooreNeighborhood(app.last.ret[1], app.self, IF coord = "IVec2" THEN 8 ELSE 26)
    /\ app.last.op = "neighbors_orthogonal" =>
           /\ is_some(app.last.ret)
           /\ VonNeumannNeighborhood(app.last.ret[1], app.self, IF coord = "IVec2" THEN 4 ELSE 6)

\* C33, amended: the same for every coordinate p with no axis value at
\* i32::MIN or i32::MAX.
C33_NeighborSetsInsideI32 ==
    InsideI32(app.self) => C33_NeighborSets

\* C33 witness: the neighbors of a coordinate one step from the ends of i32,
\* collected in a build with overflow checks; one of them is the corner of i32.
C33_Witness ==
    /\ app.state = "coordinate"
    /\ app.last.op = "neighbors"
    /\ app.last.args = <<"debug">>
    /\ InsideI32(app.self)
    /\ is_some(app.last.ret)
    /\ \E q \in Range(app.last.ret[1]) : ~InsideI32(q)

\* The corners of the last contains call give well-formed bounds: min <= max
\* on every axis.
WellFormed(min, max) == \A i \in DOMAIN min : min[i] <= max[i]

\* C34: for well-formed 2D and 3D bounds a position is within the bounds if and
\* only if min <= v <= max holds for its value v on every axis; both corners are
\* inside and every position one step beyond a corner on any axis is outside.
C34_ClosedIntervalTest ==
    (app.last.op = "contains" /\ WellFormed(app.last.args[1], app.last.args[2])) =>
        LET min == app.last.args[1]
            max == app.last.args[2]
            b == IF coord = "IVec2" THEN GridBounds_new(min, max)
                 ELSE GridBounds_new_3d(min[1], max[1], min[2], max[2], min[3], max[3])
        IN  /\ app.last.ret = Some(\A i \in DOMAIN app.self :
                                       min[i] <= app.self[i] /\ app.self[i] <= max[i])
            /\ contains(b, min)
            /\ contains(b, max)
            /\ \A i \in DOMAIN min :
                   /\ ~contains(b, [max EXCEPT ![i] = @ + 1])
                   /\ ~contains(b, [min EXCEPT ![i] = @ - 1])

\* C34 witness: a position on the upper corner of well-formed bounds of more
\* than one cell was found inside.
C34_Witness ==
    /\ app.state = "coordinate"
    /\ app.last.op = "contains"
    /\ WellFormed(app.last.args[1], app.last.args[2])
    /\ app.last.args[1] # app.last.args[2]
    /\ app.self = app.last.args[2]
    /\ app.last.ret = Some(TRUE)

\* C35: within_bounds, and with it GridBounds::contains, panics whenever the
\* bounds have min > max on some axis, in 2D and in 3D, and returns neither
\* true nor false.
C35_MalformedBoundsFailFast ==
    (app.last.op = "contains" /\ ~WellFormed(app.last.args[1], app.last.args[2])) =>
        is_panic(app.last.ret)

\* The coordinates whose Manhattan distance to center is at most d.
WithinManhattan(center, d) == {q \in Box(center, d) : manhattan_distance(center, q) <= d}

\* C36: coordinates_within_distance(center, d) yields, for every center and
\* every d >= 0, exactly the coordinates whose Manhattan distance to center is
\* at most d, each of them once (the center among them) and no other, in a
\* finite sequence.
C36_ExactlyWithinDistance ==
    app.last.op = "coordinates_within_distance" =>
        /\ is_some(app.last.ret)
        /\ NoDuplicates(app.last.ret[1])
        /\ Range(app.last.ret[1]) = WithinManhattan(app.self, app.last.args[1])
        /\ app.self \in Range(app.last.ret[1])

\* C37: over the coordinates of a bounded lattice manhattan_distance(a, b) is
\* the sum of the absolute differences of the axes; it is never negative, zero
\* exactly when a = b, the same in both directions, and
\* d(a, c) <= d(a, b) + d(b, c) for every third coordinate c of the lattice.
C37_ManhattanMetric ==
    app.last.op = "manhattan_distance" =>
        LET a == app.self
            b == app.last.args[1]
        IN  /\ app.last.ret = Some(SumSeq([i \in DOMAIN a |-> Abs(a[i] - b[i])]))
            /\ app.last.ret[1] >= 0
            /\ (app.last.ret[1] = 0) <=> (a = b)
            /\ manhattan_distance(b, a) = app.last.ret[1]
            /\ \A c \in Box(a, MaxAxis) :
                   manhattan_distance(a, c) <= app.last.ret[1] + manhattan_distance(b, c)

\* C37 witness: the distance of two coordinates that differ on every axis.
C37_Witness ==
    /\ app.state = "coordinate"
    /\ app.last.op = "manhattan_distance"
    /\ \A i \in DOMAIN app.self : app.self[i] # app.last.args[1][i]
    /\ app.last.ret = Some(Len(app.self))

\* ---------------------------------------------------------------- sampling steps without components
\* C38: an aggregate time series holds no value of a sampling step in which no
\* entity carried the sampled component: in a simulation whose spawners spawn
\* no MyCounter, where no such entity ever exists, every aggregate series of
\* MyCounter stays empty.
C38_NoValueWithoutComponents ==
    (/\ app.state = "simulation"
     /\ \A i \in DOMAIN app.spawners : app.spawners[i].counter = None)
    => \A key \in SeriesKeys : app.time_series[key].values = <<>>

====
